---- MODULE Spec2Model ----
(***************************************************************************)
(* A model of the Raft core of first-principles-cs/consensus.              *)
(*                                                                         *)
(* A raft_node_t is a record; every C function that mutates a node is an   *)
(* operator that takes the node record and returns the record after the    *)
(* call, the messages it handed to send_fn (in call order) and the entries *)
(* it handed to apply_fn (in call order).  The actions are the entry       *)
(* points a driver calls: raft_start, raft_tick, raft_receive_message,     *)
(* raft_propose, the replication handlers of replication.c, the apply      *)
(* functions, and destroy/create for a restart.                            *)
(***************************************************************************)
EXTENDS Integers, Sequences, FiniteSets, TLC

VARIABLES
    node,        \* node id -> raft_node_t (src/src/raft.h:19-60)
    net,         \* the transport: the set of messages handed to send_fn and not yet consumed
    applied,     \* node id -> the entries apply_fn was called with, in call order
    committed,   \* the entries some LEADER committed: {[index, entry, leader_term]}
    disk,        \* node id -> the files of the node's data directory
    statics,     \* the file-scope variables of read.c, transfer.c and membership.c,
                 \* shared by the nodes of the run (they live in one process)
    read_done,   \* the calls of read callbacks, in call order
    env          \* the environment of the run: the transport's kind, the driver's
                 \* tick period, and what is left of the run's budgets

vars == <<node, net, applied, committed, disk, statics, read_done, env>>

-----------------------------------------------------------------------------
(* Bounds of the model *)

\* raft_start_election runs at most MaxElections times in a run, so terms stay <= MaxElections
MaxElections == 3
\* the clients propose at most MaxProposals commands in a run
MaxProposals == 2
\* propose is not taken once the log holds MaxLog entries
MaxLog == 1
\* the transport holds at most MaxMsgs messages
MaxMsgs == 1
\* a node is destroyed and created again at most MaxRestarts times in a run
MaxRestarts == 1

(* Program constants *)

RAFT_ELECTION_TIMEOUT_MIN_MS == 150
RAFT_ELECTION_TIMEOUT_MAX_MS == 300
RAFT_HEARTBEAT_INTERVAL_MS == 50
RAFT_MAX_ENTRIES_PER_APPEND == 100

\* the cluster sizes a run is configured with (num_nodes of raft_config_t)
ClusterSizes == {1, 3}
\* the outcomes of raft_random_election_timeout the model draws
TimeoutChoices == {RAFT_ELECTION_TIMEOUT_MIN_MS}

NONE == -1

Min(a, b) == IF a < b THEN a ELSE b

-----------------------------------------------------------------------------
(* log.c *)

NoEntry == [term |-> 0, index |-> 0, type |-> "COMMAND", command |-> 0]

\* stale is what the array log->entries holds behind its first count slots: the
\* type fields of the slots that were used and given up, up to the last one that is
\* not the zero of calloc (RAFT_ENTRY_COMMAND)
raft_log_create == [entries |-> << >>, base_index |-> 0, base_term |-> 0,
                    stale |-> << >>]

\* the type fields of the array, slot by slot
SlotTypes(log) == [i \in 1..Len(log.entries) |-> log.entries[i].type] \o log.stale

RECURSIVE Zeroless(_)
Zeroless(types) ==
    IF types = << >> THEN << >>
    ELSE IF types[Len(types)] = "COMMAND" THEN Zeroless(SubSeq(types, 1, Len(types) - 1))
    ELSE types

\* the slots behind the first count, once count of them were (over)written
Stale(log, count) ==
    Zeroless(SubSeq(SlotTypes(log), count + 1, Len(SlotTypes(log))))

raft_log_last_index(log) ==
    IF Len(log.entries) = 0 THEN log.base_index
    ELSE log.base_index + Len(log.entries)

raft_log_last_term(log) ==
    IF Len(log.entries) = 0 THEN log.base_term
    ELSE log.entries[Len(log.entries)].term

\* NoEntry stands for the NULL the C function returns
raft_log_get(log, index) ==
    IF index = 0 \/ index <= log.base_index THEN NoEntry
    ELSE IF index - log.base_index - 1 >= Len(log.entries) THEN NoEntry
    ELSE log.entries[index - log.base_index]

raft_log_term_at(log, index) ==
    IF index = 0 THEN 0
    ELSE IF index = log.base_index THEN log.base_term
    ELSE raft_log_get(log, index).term

\* the entry's type is not written: the slot keeps the type it had, the zero of
\* calloc (RAFT_ENTRY_COMMAND) if it was never used
raft_log_append(log, term, command) ==
    [log EXCEPT !.entries =
        Append(@, [term |-> term,
                   index |-> log.base_index + Len(log.entries) + 1,
                   type |-> IF log.stale = << >> THEN "COMMAND" ELSE Head(log.stale),
                   command |-> command]),
                !.stale = IF @ = << >> THEN << >> ELSE Tail(@)]

raft_log_truncate_after(log, after_index) ==
    IF after_index >= raft_log_last_index(log) THEN log
    ELSE IF after_index <= log.base_index
    THEN [log EXCEPT !.entries = << >>, !.stale = Stale(log, 0)]
    ELSE [log EXCEPT !.entries = SubSeq(@, 1, after_index - log.base_index),
                     !.stale = Stale(log, after_index - log.base_index)]

\* a truncation that drops the prefix and leaves the anchor where it was:
\* LogStructure must not survive it
raft_log_truncate_before_unanchored(log, before_index) ==
    LET last == raft_log_last_index(log)
        before == IF before_index > last + 1 THEN last + 1 ELSE before_index
    IN  IF before_index <= log.base_index + 1 THEN log
        ELSE [log EXCEPT !.entries = SubSeq(@, before - log.base_index, Len(@)),
                         !.stale = Stale(log, last + 1 - before)]

\* the entries before before_index go, the rest is moved to the front with its
\* fields as they are, and the anchor becomes before_index - 1
raft_log_truncate_before(log, before_index) ==
    LET last == raft_log_last_index(log)
        before == IF before_index > last + 1 THEN last + 1 ELSE before_index
        prev_entry == raft_log_get(log, before - 1)
        new_base_term == IF prev_entry # NoEntry THEN prev_entry.term ELSE log.base_term
    IN  IF before_index <= log.base_index + 1 THEN log
        ELSE [entries |-> SubSeq(log.entries, before - log.base_index, Len(log.entries)),
              base_index |-> before - 1,
              base_term |-> new_base_term,
              stale |-> Stale(log, last + 1 - before)]

-----------------------------------------------------------------------------
(* raft.c: create, become_leader, apply_committed *)

raft_create(id, n) ==
    [ node_id             |-> id,
      num_nodes           |-> n,
      role                |-> "FOLLOWER",
      current_term        |-> 0,
      voted_for           |-> NONE,
      commit_index        |-> 0,
      last_applied        |-> 0,
      \* NULL until the first raft_become_leader; never read before it
      next_index          |-> [i \in 0..(n - 1) |-> 0],
      match_index         |-> [i \in 0..(n - 1) |-> 0],
      log                 |-> raft_log_create,
      running             |-> FALSE,
      current_leader      |-> NONE,
      votes_received      |-> 0,
      votes_granted       |-> [i \in 0..(n - 1) |-> FALSE],
      election_timeout_ms |-> 0,
      election_timer_ms   |-> 0,
      heartbeat_timer_ms  |-> 0,
      \* node->storage: raft_create leaves it NULL (calloc) whatever config->data_dir is
      storage             |-> FALSE ]

\* what a call returns: the node after it, the messages sent, the entries applied
Ret(nd, out, app) == [nd |-> nd, out |-> out, app |-> app]

raft_become_leader(nd) ==
    LET last_index == raft_log_last_index(nd.log)
        n1 == [nd EXCEPT !.role = "LEADER",
                         !.current_leader = nd.node_id,
                         !.next_index = [i \in 0..(nd.num_nodes - 1) |-> last_index + 1],
                         !.match_index = [i \in 0..(nd.num_nodes - 1) |-> 0]]
    IN  IF nd.num_nodes = 1 THEN [n1 EXCEPT !.commit_index = last_index] ELSE n1

RECURSIVE ApplyLoop(_, _, _)
\* the while loop of raft_apply_committed: the entries handed to apply_fn
ApplyLoop(log, last_applied, commit_index) ==
    IF last_applied < commit_index
    THEN LET e == raft_log_get(log, last_applied + 1)
         IN  (IF e = NoEntry THEN << >> ELSE <<e>>)
             \o ApplyLoop(log, last_applied + 1, commit_index)
    ELSE << >>

raft_apply_committed(nd) ==
    IF nd.last_applied < nd.commit_index
    THEN Ret([nd EXCEPT !.last_applied = nd.commit_index], << >>,
             ApplyLoop(nd.log, nd.last_applied, nd.commit_index))
    ELSE Ret(nd, << >>, << >>)

-----------------------------------------------------------------------------
(* timer.c *)

\* timeout is the value raft_random_election_timeout returned
raft_reset_election_timer(nd, timeout) ==
    [nd EXCEPT !.election_timer_ms = 0, !.election_timeout_ms = timeout]

-----------------------------------------------------------------------------
(* election.c *)

Peers(nd) == {i \in 0..(nd.num_nodes - 1) : i # nd.node_id}

RECURSIVE ToAll(_, _, _)
\* for (i = 0; i < num_nodes; i++) if (i != node_id) send_fn(node, i, msg)
ToAll(nd, i, msg) ==
    IF i >= nd.num_nodes THEN << >>
    ELSE (IF i # nd.node_id THEN <<[msg EXCEPT !.to = i]>> ELSE << >>)
         \o ToAll(nd, i + 1, msg)

\* a node that adopts the higher term and keeps its role: PartitionHeals must not
\* survive it
raft_step_down_keeps_role(nd, new_term, timeout) ==
    raft_reset_election_timer(
        [nd EXCEPT !.current_term = new_term,
                   !.voted_for = NONE,
                   !.current_leader = NONE,
                   !.votes_received = 0,
                   !.votes_granted = [i \in 0..(nd.num_nodes - 1) |-> FALSE]],
        timeout)

raft_step_down(nd, new_term, timeout) ==
    raft_reset_election_timer(
        [nd EXCEPT !.role = "FOLLOWER",
                   !.current_term = new_term,
                   !.voted_for = NONE,
                   !.current_leader = NONE,
                   !.votes_received = 0,
                   !.votes_granted = [i \in 0..(nd.num_nodes - 1) |-> FALSE]],
        timeout)

\* a voter that does not compare logs: RequestVoteDecision must not survive it
is_log_up_to_date_always(nd, last_log_term, last_log_index) == TRUE

is_log_up_to_date(nd, last_log_term, last_log_index) ==
    LET my_last_term == raft_log_last_term(nd.log)
        my_last_index == raft_log_last_index(nd.log)
    IN  \/ last_log_term > my_last_term
        \/ last_log_term = my_last_term /\ last_log_index >= my_last_index

\* a majority test that one vote passes: ElectionSafety must not survive it
has_majority_of_one(votes, num_nodes) == votes >= 1

\* the majority test of raft_start_election and raft_handle_request_vote_response
has_majority(votes, num_nodes) == votes > num_nodes \div 2

raft_start_election(nd, timeout) ==
    LET n1 == raft_reset_election_timer(
                  [nd EXCEPT !.role = "CANDIDATE",
                             !.current_term = nd.current_term + 1,
                             !.voted_for = nd.node_id,
                             !.current_leader = NONE,
                             !.votes_received = 1,
                             !.votes_granted =
                                 [i \in 0..(nd.num_nodes - 1) |-> i = nd.node_id]],
                  timeout)
        request == [type |-> "REQUEST_VOTE", from |-> nd.node_id, to |-> NONE,
                    term |-> n1.current_term,
                    candidate_id |-> nd.node_id,
                    last_log_index |-> raft_log_last_index(nd.log),
                    last_log_term |-> raft_log_last_term(nd.log)]
    IN  IF ~nd.running THEN Ret(nd, << >>, << >>)
        ELSE IF has_majority(n1.votes_received, n1.num_nodes)
        THEN Ret(raft_become_leader(n1), << >>, << >>)
        ELSE Ret(n1, ToAll(n1, 0, request), << >>)

\* a voter that forgets its vote: VoteMonotonicity must not survive it
can_vote_again(nd, candidate_id) == TRUE

\* can_vote of raft_handle_request_vote
can_vote(nd, candidate_id) ==
    nd.voted_for = NONE \/ nd.voted_for = candidate_id

raft_handle_request_vote(nd, request, timeout) ==
    LET n1 == IF request.term > nd.current_term
              THEN raft_step_down(nd, request.term, timeout) ELSE nd
        response == [type |-> "REQUEST_VOTE_RESPONSE", from |-> nd.node_id,
                     to |-> request.from,
                     term |-> n1.current_term, vote_granted |-> FALSE]
    IN  IF request.term < n1.current_term THEN Ret(n1, <<response>>, << >>)
        ELSE IF /\ can_vote(n1, request.candidate_id)
                /\ is_log_up_to_date(n1, request.last_log_term, request.last_log_index)
        THEN Ret(raft_reset_election_timer(
                     [n1 EXCEPT !.voted_for = request.candidate_id], timeout),
                 <<[response EXCEPT !.vote_granted = TRUE]>>, << >>)
        ELSE Ret(n1, <<response>>, << >>)

raft_handle_request_vote_response(nd, from_node, response, timeout) ==
    IF from_node < 0 \/ from_node >= nd.num_nodes THEN Ret(nd, << >>, << >>)
    ELSE IF nd.role # "CANDIDATE" THEN Ret(nd, << >>, << >>)
    ELSE IF response.term > nd.current_term
    THEN Ret(raft_step_down(nd, response.term, timeout), << >>, << >>)
    ELSE IF response.term < nd.current_term THEN Ret(nd, << >>, << >>)
    ELSE IF response.vote_granted /\ ~nd.votes_granted[from_node]
    THEN LET n1 == [nd EXCEPT !.votes_granted[from_node] = TRUE,
                              !.votes_received = nd.votes_received + 1]
         IN  IF has_majority(n1.votes_received, n1.num_nodes)
             THEN Ret(raft_become_leader(n1), << >>, << >>)
             ELSE Ret(n1, << >>, << >>)
    ELSE Ret(nd, << >>, << >>)

\* the heartbeat-only handler raft_receive_message dispatches APPEND_ENTRIES to
raft_handle_append_entries(nd, request, timeout) ==
    LET n1 == IF request.term > nd.current_term
              THEN raft_step_down(nd, request.term, timeout) ELSE nd
        response == [type |-> "APPEND_ENTRIES_RESPONSE", from |-> nd.node_id,
                     to |-> request.from,
                     term |-> n1.current_term, success |-> FALSE, match_index |-> 0]
        n2 == [raft_reset_election_timer(n1, timeout)
                  EXCEPT !.current_leader = request.leader_id]
        n3 == IF n2.role = "CANDIDATE"
              THEN [n2 EXCEPT !.role = "FOLLOWER", !.votes_received = 0] ELSE n2
        last_index == raft_log_last_index(n3.log)
    IN  IF request.term < n1.current_term THEN Ret(n1, <<response>>, << >>)
        ELSE IF request.entries_count = 0
        THEN Ret(IF request.leader_commit > n3.commit_index
                 THEN [n3 EXCEPT !.commit_index = Min(request.leader_commit, last_index)]
                 ELSE n3,
                 <<[response EXCEPT !.success = TRUE, !.match_index = last_index]>>,
                 << >>)
        ELSE Ret(n3, <<response>>, << >>)

raft_send_heartbeats(nd) ==
    LET heartbeat == [type |-> "APPEND_ENTRIES", from |-> nd.node_id, to |-> NONE,
                      term |-> nd.current_term,
                      leader_id |-> nd.node_id,
                      prev_log_index |-> raft_log_last_index(nd.log),
                      prev_log_term |-> raft_log_last_term(nd.log),
                      leader_commit |-> nd.commit_index,
                      entries_count |-> 0,
                      entries |-> << >>]
    IN  IF nd.role # "LEADER" THEN Ret(nd, << >>, << >>)
        ELSE Ret(nd, ToAll(nd, 0, heartbeat), << >>)

-----------------------------------------------------------------------------
(* commit.c *)

\* count of raft_advance_commit_index: the leader plus the peers with match_index >= n
majority_count(nd, n) ==
    1 + Cardinality({i \in Peers(nd) : nd.match_index[i] >= n})

\* a leader that commits on the majority alone: CurrentTermCommit must not survive it
commit_allowed_any_term(nd, n) ==
    majority_count(nd, n) > nd.num_nodes \div 2

\* "Only commit if majority AND entry is from current term"
commit_allowed(nd, n) ==
    /\ majority_count(nd, n) > nd.num_nodes \div 2
    /\ raft_log_term_at(nd.log, n) = nd.current_term

raft_advance_commit_index(nd) ==
    LET last_index == raft_log_last_index(nd.log)
        ok == {n \in (nd.commit_index + 1)..last_index : commit_allowed(nd, n)}
        \* the loop runs n upwards and keeps the last n that passes
        new_commit == IF ok = {} THEN nd.commit_index
                      ELSE CHOOSE n \in ok : \A k \in ok : k <= n
    IN  IF nd.role # "LEADER" THEN Ret(nd, << >>, << >>)
        ELSE IF new_commit > nd.commit_index
        THEN raft_apply_committed([nd EXCEPT !.commit_index = new_commit])
        ELSE Ret(nd, << >>, << >>)

-----------------------------------------------------------------------------
(* replication.c *)

RECURSIVE WireEntries(_, _, _)
\* the entries serialised after the header: {term, cmd_len, payload} for each
\* index next_idx + i, i < entries_count, that raft_log_get finds
WireEntries(log, next_idx, entries_count) ==
    IF entries_count = 0 THEN << >>
    ELSE LET e == raft_log_get(log, next_idx)
         IN  (IF e = NoEntry THEN << >>
              ELSE <<[term |-> e.term, command |-> e.command]>>)
             \o WireEntries(log, next_idx + 1, entries_count - 1)

raft_replicate_to_peer(nd, peer_id) ==
    LET next_idx == nd.next_index[peer_id]
        last_idx == raft_log_last_index(nd.log)
        prev_log_index == IF next_idx > 1 THEN next_idx - 1 ELSE 0
        entries_count == IF last_idx >= next_idx
                         THEN Min(last_idx - next_idx + 1, RAFT_MAX_ENTRIES_PER_APPEND)
                         ELSE 0
    IN  IF nd.role # "LEADER" THEN << >>
        ELSE IF peer_id < 0 \/ peer_id >= nd.num_nodes THEN << >>
        ELSE IF peer_id = nd.node_id THEN << >>
        ELSE <<[type |-> "APPEND_ENTRIES", from |-> nd.node_id, to |-> peer_id,
                term |-> nd.current_term,
                leader_id |-> nd.node_id,
                prev_log_index |-> prev_log_index,
                prev_log_term |-> raft_log_term_at(nd.log, prev_log_index),
                leader_commit |-> nd.commit_index,
                entries_count |-> entries_count,
                entries |-> WireEntries(nd.log, next_idx, entries_count)]>>

RECURSIVE ReplicateFrom(_, _)
ReplicateFrom(nd, i) ==
    IF i >= nd.num_nodes THEN << >>
    ELSE (IF i # nd.node_id THEN raft_replicate_to_peer(nd, i) ELSE << >>)
         \o ReplicateFrom(nd, i + 1)

raft_replicate_log(nd) ==
    IF nd.role # "LEADER" THEN Ret(nd, << >>, << >>)
    ELSE Ret(nd, ReplicateFrom(nd, 0), << >>)

raft_handle_append_entries_response(nd, from_node, response, timeout) ==
    IF from_node < 0 \/ from_node >= nd.num_nodes THEN Ret(nd, << >>, << >>)
    ELSE IF nd.role # "LEADER" THEN Ret(nd, << >>, << >>)
    ELSE IF response.term > nd.current_term
    THEN Ret(raft_step_down(nd, response.term, timeout), << >>, << >>)
    ELSE IF response.term < nd.current_term THEN Ret(nd, << >>, << >>)
    ELSE IF response.success
    THEN raft_advance_commit_index(
             IF response.match_index > nd.match_index[from_node]
             THEN [nd EXCEPT !.match_index[from_node] = response.match_index,
                             !.next_index[from_node] = response.match_index + 1]
             ELSE nd)
    ELSE Ret(IF nd.next_index[from_node] > 1
             THEN [nd EXCEPT !.next_index[from_node] = @ - 1] ELSE nd,
             << >>, << >>)

\* "Log consistency check": FALSE when the follower must reject
log_consistent(log, prev_log_index, prev_log_term) ==
    prev_log_index > 0 =>
        LET term_at_prev == raft_log_term_at(log, prev_log_index)
        IN  ~(term_at_prev = 0 \/ term_at_prev # prev_log_term)

\* a follower that appends what it already holds: LogMatching must not survive it
must_append_always(log, entry_index) == TRUE

\* "Append if we don't have this entry"
must_append(log, entry_index) == entry_index > raft_log_last_index(log)

RECURSIVE ProcessEntries(_, _, _, _)
\* the for loop over the entries of the message; i counts from 0
ProcessEntries(log, request, i, wire) ==
    IF i >= request.entries_count \/ wire = << >> THEN log
    ELSE LET entry_index == request.prev_log_index + 1 + i
             entry == Head(wire)
             existing_term == raft_log_term_at(log, entry_index)
             l1 == IF existing_term # 0 /\ existing_term # entry.term
                   THEN raft_log_truncate_after(log, entry_index - 1) ELSE log
             l2 == IF must_append(l1, entry_index)
                   THEN raft_log_append(l1, entry.term, entry.command) ELSE l1
         IN  ProcessEntries(l2, request, i + 1, Tail(wire))

\* new_commit of raft_handle_append_entries_with_log
follower_commit(request, log) ==
    Min(Min(request.leader_commit, request.prev_log_index + request.entries_count),
        raft_log_last_index(log))

raft_handle_append_entries_with_log(nd, request, timeout) ==
    LET n1 == IF request.term > nd.current_term
              THEN raft_step_down(nd, request.term, timeout) ELSE nd
        response == [type |-> "APPEND_ENTRIES_RESPONSE", from |-> nd.node_id,
                     to |-> request.from,
                     term |-> n1.current_term, success |-> FALSE, match_index |-> 0]
        n2 == [n1 EXCEPT !.election_timer_ms = 0,
                         !.current_leader = request.leader_id]
        n3 == IF n2.role = "CANDIDATE"
              THEN [n2 EXCEPT !.role = "FOLLOWER", !.votes_received = 0] ELSE n2
        n4 == [n3 EXCEPT !.log = ProcessEntries(n3.log, request, 0, request.entries)]
        r5 == IF request.leader_commit > n4.commit_index
              THEN raft_apply_committed(
                       [n4 EXCEPT !.commit_index = follower_commit(request, n4.log)])
              ELSE Ret(n4, << >>, << >>)
    IN  IF request.term < n1.current_term THEN Ret(n1, <<response>>, << >>)
        ELSE IF ~log_consistent(n3.log, request.prev_log_index, request.prev_log_term)
        THEN Ret(n3, <<[response EXCEPT
                          !.match_index = raft_log_last_index(n3.log)]>>, << >>)
        ELSE Ret(r5.nd,
                 <<[response EXCEPT !.success = TRUE,
                                    !.match_index = raft_log_last_index(r5.nd.log)]>>,
                 r5.app)

-----------------------------------------------------------------------------
(* raft.c: start, propose;  timer.c: tick;  election.c: receive_message *)

raft_start(nd) ==
    IF nd.running THEN nd
    ELSE IF nd.num_nodes = 1 THEN raft_become_leader([nd EXCEPT !.running = TRUE])
    ELSE [nd EXCEPT !.running = TRUE]

\* a propose that leaves commit_index alone in a single-node cluster:
\* SingleNodeCommit must not survive it
raft_propose_uncommitted(nd, command) ==
    IF ~nd.running \/ nd.role # "LEADER" THEN nd
    ELSE [nd EXCEPT !.log = raft_log_append(nd.log, nd.current_term, command)]

raft_propose(nd, command) ==
    LET n1 == [nd EXCEPT !.log = raft_log_append(nd.log, nd.current_term, command)]
        index == raft_log_last_index(n1.log)
    IN  IF ~nd.running \/ nd.role # "LEADER" THEN nd
        ELSE IF nd.num_nodes = 1 THEN [n1 EXCEPT !.commit_index = index]
        ELSE n1

raft_tick_election(nd, elapsed_ms, timeout) ==
    LET n1 == [nd EXCEPT !.election_timer_ms = @ + elapsed_ms]
    IN  IF ~nd.running \/ nd.role = "LEADER" THEN Ret(nd, << >>, << >>)
        ELSE IF n1.election_timer_ms >= n1.election_timeout_ms
        THEN raft_start_election(n1, timeout)
        ELSE Ret(n1, << >>, << >>)

raft_tick_heartbeat(nd, elapsed_ms) ==
    LET n1 == [nd EXCEPT !.heartbeat_timer_ms = @ + elapsed_ms]
    IN  IF ~nd.running \/ nd.role # "LEADER" THEN Ret(nd, << >>, << >>)
        ELSE IF n1.heartbeat_timer_ms >= RAFT_HEARTBEAT_INTERVAL_MS
        THEN raft_send_heartbeats([n1 EXCEPT !.heartbeat_timer_ms = 0])
        ELSE Ret(n1, << >>, << >>)

\* every status the two calls return in the model is RAFT_OK or RAFT_STOPPED
raft_tick(nd, elapsed_ms, timeout) ==
    LET r1 == raft_tick_election(nd, elapsed_ms, timeout)
        r2 == raft_tick_heartbeat(r1.nd, elapsed_ms)
    IN  IF ~nd.running THEN Ret(nd, << >>, << >>)
        ELSE Ret(r2.nd, r1.out \o r2.out, << >>)

raft_receive_message(nd, from_node, msg, timeout) ==
    CASE msg.type = "REQUEST_VOTE" ->
             raft_handle_request_vote(nd, msg, timeout)
      [] msg.type = "REQUEST_VOTE_RESPONSE" ->
             raft_handle_request_vote_response(nd, from_node, msg, timeout)
      [] msg.type = "APPEND_ENTRIES" ->
             raft_handle_append_entries(nd, msg, timeout)
      [] msg.type = "APPEND_ENTRIES_RESPONSE" ->
             \* "Will be handled in Phase 3 (replication)": return RAFT_OK
             Ret(nd, << >>, << >>)
      [] OTHER -> Ret(nd, << >>, << >>)

-----------------------------------------------------------------------------
(* batch.c: apply_batch *)

RECURSIVE BatchLoop(_, _, _)
\* the for loop of raft_apply_batch: the entries handed to apply_fn; a NULL entry breaks
BatchLoop(log, index, available) ==
    IF available = 0 THEN << >>
    ELSE LET entry == raft_log_get(log, index)
         IN  IF entry = NoEntry THEN << >>
             ELSE <<entry>> \o BatchLoop(log, index + 1, available - 1)

raft_apply_batch(nd, max_entries) ==
    LET commit_index == nd.commit_index
        last_applied == nd.last_applied
        avail0 == IF commit_index > last_applied THEN commit_index - last_applied ELSE 0
        available == IF max_entries > 0 /\ avail0 > max_entries THEN max_entries ELSE avail0
        done == BatchLoop(nd.log, last_applied + 1, available)
    IN  Ret([nd EXCEPT !.last_applied = last_applied + Len(done)], << >>, done)

-----------------------------------------------------------------------------
(* storage.c and raft_propose_batch of batch.c *)

RAFT_STATE_MAGIC == 1380009556
RAFT_STORAGE_VERSION == 1
RAFT_SNAPSHOT_MAGIC == 1381191248
RAFT_SNAPSHOT_VERSION == 1

RECURSIVE crc32(_)
\* the checksum of the fields it is computed over (a polynomial of them, kept
\* below 2^24 where the CRC has 32 bits): a change of one field of the files of
\* the model changes it
crc32(data) ==
    IF data = << >> THEN 0
    ELSE (crc32(SubSeq(data, 1, Len(data) - 1)) * 33 + data[Len(data)] + 2) % (2 ^ 24)

\* a data directory is [state, log, tail, snapshot]: raft_state.dat (NoFile if
\* there is none), the whole records of raft_log.dat after its header, what is
\* left of a record the file was cut in ("NONE", "HEADER": less than the record
\* header, "PAYLOAD": the header and less than cmd_len bytes of the command), and
\* raft_snapshot.dat.  A file has complete = FALSE when it is shorter than its
\* header structure
NoFile == [found |-> FALSE]

\* the fields raft_storage_append_entry computes rec.crc32 over; a command of the
\* model is one byte long
RecordData(rec) == <<rec.term, rec.index, rec.cmd_len, rec.command>>

\* raft_storage_append_entry that returns RAFT_OK: the record of the entry is at
\* the file's end (the record has no field for the entry's type)
raft_storage_append_entry(d, entry) ==
    LET rec == [term |-> entry.term, index |-> entry.index, cmd_len |-> 1,
                command |-> entry.command]
    IN  [d EXCEPT !.log = Append(@, [crc32 |-> crc32(RecordData(rec)),
                                     term |-> rec.term, index |-> rec.index,
                                     cmd_len |-> rec.cmd_len,
                                     command |-> rec.command])]

raft_storage_save_state(d, current_term, voted_for) ==
    [d EXCEPT !.state = [found |-> TRUE, complete |-> TRUE,
                         magic |-> RAFT_STATE_MAGIC,
                         version |-> RAFT_STORAGE_VERSION,
                         crc32 |-> crc32(<<current_term, voted_for>>),
                         current_term |-> current_term,
                         voted_for |-> voted_for]]

raft_storage_load_state(d) ==
    LET state == d.state
        failed(status) == [status |-> status, current_term |-> 0, voted_for |-> NONE]
    IN  IF ~state.found THEN failed("NOT_FOUND")
        ELSE IF ~state.complete THEN failed("IO_ERROR")
        ELSE IF state.magic # RAFT_STATE_MAGIC THEN failed("CORRUPTION")
        ELSE IF state.version # RAFT_STORAGE_VERSION THEN failed("CORRUPTION")
        ELSE IF state.crc32 # crc32(<<state.current_term, state.voted_for>>)
        THEN failed("CORRUPTION")
        ELSE [status |-> "OK", current_term |-> state.current_term,
              voted_for |-> state.voted_for]

RECURSIVE AppendBatch(_, _, _, _)
\* the raft_log_append calls of the loop of raft_propose_batch for commands[i..]
AppendBatch(log, term, commands, i) ==
    IF i > Len(commands) THEN log
    ELSE AppendBatch(raft_log_append(log, term, commands[i]), term, commands, i + 1)

RECURSIVE PersistBatch(_, _, _, _)
\* the raft_storage_append_entry calls of the loop that returned RAFT_OK
PersistBatch(d, log, index, count) ==
    IF count = 0 THEN d
    ELSE PersistBatch(raft_storage_append_entry(d, raft_log_get(log, index)),
                      log, index + 1, count - 1)

\* raft_propose_batch without its rollback: AtomicBatch must not survive it
raft_propose_batch_no_rollback(nd, d, commands, appended, accepted) ==
    LET count == Len(commands)
        done == Min(appended, count)
        log == AppendBatch(nd.log, nd.current_term, SubSeq(commands, 1, done), 1)
    IN  IF ~nd.running THEN [nd |-> nd, disk |-> d, status |-> "STOPPED", first_index |-> 0]
        ELSE [nd |-> [nd EXCEPT !.log = log], disk |-> d,
              status |-> IF done < count THEN "NO_MEMORY" ELSE "OK",
              first_index |-> raft_log_last_index(nd.log) + 1]

\* appended is the number of raft_log_append calls that return RAFT_OK before one
\* fails with RAFT_NO_MEMORY, accepted the number of raft_storage_append_entry calls
\* that return RAFT_OK before one fails (Len(commands) or more if none fails);
\* accepted is read only if storage is enabled
raft_propose_batch(nd, d, commands, appended, accepted) ==
    LET term == nd.current_term
        count == Len(commands)
        first_index == raft_log_last_index(nd.log) + 1
        stored == IF nd.storage THEN accepted ELSE count
        \* the loop ends in the pass whose append or whose write fails
        fail_append == appended < count /\ appended <= stored
        fail_persist == stored < count /\ stored < appended
        passed == IF fail_append THEN appended ELSE IF fail_persist THEN stored + 1 ELSE count
        written == IF ~nd.storage THEN 0
                   ELSE IF fail_append THEN appended
                   ELSE IF fail_persist THEN stored ELSE count
        log == AppendBatch(nd.log, term, SubSeq(commands, 1, passed), 1)
        n1 == [nd EXCEPT !.log = log,
                         !.match_index[nd.node_id] = raft_log_last_index(log)]
        rolled_back == IF passed > 0 THEN raft_log_truncate_after(log, first_index - 1)
                       ELSE log
        d1 == PersistBatch(d, log, first_index, written)
    IN  IF ~nd.running
        THEN [nd |-> nd, disk |-> d, status |-> "STOPPED", first_index |-> 0]
        ELSE IF nd.role # "LEADER"
        THEN [nd |-> nd, disk |-> d, status |-> "NOT_LEADER", first_index |-> 0]
        ELSE IF count = 0
        THEN [nd |-> nd, disk |-> d, status |-> "INVALID_ARG", first_index |-> 0]
        ELSE IF fail_append
        THEN [nd |-> [nd EXCEPT !.log = rolled_back], disk |-> d1,
              status |-> "NO_MEMORY", first_index |-> 0]
        ELSE IF fail_persist
        THEN [nd |-> [nd EXCEPT !.log = rolled_back], disk |-> d1,
              status |-> "IO_ERROR", first_index |-> 0]
        ELSE [nd |-> n1, disk |-> d1, status |-> "OK", first_index |-> first_index]

-----------------------------------------------------------------------------
(* snapshot.c *)

Max(a, b) == IF a > b THEN a ELSE b

\* node->data_dir is NULL (raft_create never sets it), so no file is written; the
\* whole log is discarded and the anchor set to meta
raft_snapshot_install(nd, meta) ==
    [nd EXCEPT !.log = [entries |-> << >>,
                        base_index |-> meta.last_index,
                        base_term |-> meta.last_term,
                        stale |-> Stale(nd.log, 0)],
               !.commit_index = Max(@, meta.last_index),
               !.last_applied = Max(@, meta.last_index)]

\* the snapshot file is written whole and renamed into place
raft_snapshot_create(d, last_index, last_term) ==
    [d EXCEPT !.snapshot = [found |-> TRUE, complete |-> TRUE,
                            magic |-> RAFT_SNAPSHOT_MAGIC,
                            version |-> RAFT_SNAPSHOT_VERSION,
                            crc32 |-> crc32(<<last_index, last_term>>),
                            last_index |-> last_index,
                            last_term |-> last_term]]

\* stat finds the file and it is not shorter than its header
raft_snapshot_exists(d) == d.snapshot.found /\ d.snapshot.complete

raft_snapshot_load_meta(d) ==
    LET header == d.snapshot
        failed(status) == [status |-> status, last_index |-> 0, last_term |-> 0]
    IN  IF ~header.found THEN failed("NOT_FOUND")
        ELSE IF ~header.complete THEN failed("IO_ERROR")
        ELSE IF header.magic # RAFT_SNAPSHOT_MAGIC THEN failed("CORRUPTION")
        ELSE IF header.version # RAFT_SNAPSHOT_VERSION THEN failed("CORRUPTION")
        ELSE IF header.crc32 # crc32(<<header.last_index, header.last_term>>)
        THEN failed("CORRUPTION")
        ELSE [status |-> "OK", last_index |-> header.last_index,
              last_term |-> header.last_term]

-----------------------------------------------------------------------------
(* recovery.c, with raft_storage_iterate_log of storage.c *)

RECURSIVE raft_storage_iterate_log(_, _, _)
\* the while loop over the records left to read, with recover_entry_cb as fn: the
\* loop ends with RAFT_OK when read returns less than a record header (the end
\* of the file, or a header the file was cut in)
raft_storage_iterate_log(nd, records, tail) ==
    IF records = << >>
    THEN [nd |-> nd, status |-> IF tail = "PAYLOAD" THEN "IO_ERROR" ELSE "OK"]
    ELSE LET rec == Head(records)
             log == raft_log_append(nd.log, rec.term, rec.command)
             out_index == raft_log_last_index(log)
         IN  IF rec.crc32 # crc32(RecordData(rec))
             THEN [nd |-> nd, status |-> "CORRUPTION"]
             ELSE IF out_index # rec.index
             THEN [nd |-> [nd EXCEPT !.log = log], status |-> "CORRUPTION"]
             ELSE raft_storage_iterate_log([nd EXCEPT !.log = log], Tail(records), tail)

\* raft_recover on the node raft_create returned and the storage of directory d
raft_recover(nd, d) ==
    LET snap_meta == raft_snapshot_load_meta(d)
        n1 == IF raft_snapshot_exists(d) /\ snap_meta.status = "OK"
              THEN [nd EXCEPT !.log.base_index = snap_meta.last_index,
                              !.log.base_term = snap_meta.last_term]
              ELSE nd
        state == raft_storage_load_state(d)
        n2 == IF state.status = "OK"
              THEN [n1 EXCEPT !.current_term = state.current_term,
                              !.voted_for = state.voted_for]
              ELSE n1
    IN  IF state.status \notin {"OK", "NOT_FOUND"}
        THEN [nd |-> n1, status |-> state.status]
        ELSE raft_storage_iterate_log(n2, d.log, d.tail)

-----------------------------------------------------------------------------
(* read.c, transfer.c, membership.c *)

\* g_pending_reads = NULL; g_transfer_state, g_transfer_target; g_config
\* (allocated: g_config.nodes is not NULL); g_snapshot_cb (NONE: NULL, else the
\* callback, named by the node it was registered for)
NoStatics ==
    [pending_reads |-> << >>,
     snapshot_cb |-> NONE,
     transfer_state |-> "NONE",
     transfer_target |-> NONE,
     config |-> [allocated |-> FALSE, nodes |-> << >>, node_count |-> 0,
                 pending_node |-> NONE, pending_add |-> FALSE]]

\* what a call on a node left and returned: the node, the file-scope variables,
\* the messages handed to send_fn, the read callbacks it invoked, and its status
Call(nd, st, out, cb, status) ==
    [nd |-> nd, statics |-> st, out |-> out, cb |-> cb, status |-> status]

\* snapshot.c: the callback and the compaction hook
raft_set_snapshot_callback(nd, st, callback) ==
    Call(nd, [st EXCEPT !.snapshot_cb = callback], << >>, << >>, "OK")

\* node->data_dir is NULL after raft_create (nothing under src/src assigns it), so
\* the call returns RAFT_OK at "if (!node || !node->data_dir)"; data_dir is that
\* field, snapshot_cb is g_snapshot_cb != NULL
raft_maybe_compact(nd, data_dir, threshold, snapshot_cb) ==
    LET compact_index == nd.last_applied
        entry == raft_log_get(nd.log, compact_index)
        compact_term == IF entry # NoEntry THEN entry.term ELSE nd.log.base_term
        entries_to_remove == compact_index - nd.log.base_index
        count == Len(nd.log.entries)
    IN  IF \/ ~data_dir
           \/ count < threshold
           \/ ~snapshot_cb
           \/ compact_index = 0
        THEN nd
        ELSE [nd EXCEPT !.log =
                [entries |-> IF entries_to_remove < count
                             THEN SubSeq(nd.log.entries, entries_to_remove + 1, count)
                             ELSE << >>,
                 base_index |-> compact_index,
                 base_term |-> compact_term,
                 stale |-> Stale(nd.log, IF entries_to_remove < count
                                         THEN count - entries_to_remove ELSE 0)]]

\* the status raft_propose returns (raft.c:91-99)
raft_propose_status(nd) ==
    IF ~nd.running THEN "STOPPED"
    ELSE IF nd.role # "LEADER" THEN "NOT_LEADER"
    ELSE "OK"

\* a callback invoked for request req with a status; acked is the set of the nodes
\* whose acknowledgement the request counted
Callback(req, status) ==
    [status |-> status, read_index |-> req.read_index,
     acked |-> {i \in DOMAIN req.acked : req.acked[i]}]

\* a read_index that does not ask who leads: NotLeaderRejected must not survive it
raft_read_index_anywhere(nd, st) ==
    LET req == [read_index |-> nd.commit_index,
                acks_needed |-> nd.num_nodes \div 2,
                acks_received |-> 0,
                acked |-> [i \in 0..(nd.num_nodes - 1) |-> FALSE]]
    IN  Call(nd, [st EXCEPT !.pending_reads = Append(@, req)], << >>, << >>, "OK")

raft_read_index(nd, st) ==
    LET req == [read_index |-> nd.commit_index,
                acks_needed |-> nd.num_nodes \div 2,
                acks_received |-> 0,
                acked |-> [i \in 0..(nd.num_nodes - 1) |-> FALSE]]
    IN  IF ~nd.running THEN Call(nd, st, << >>, << >>, "STOPPED")
        ELSE IF nd.role # "LEADER" THEN Call(nd, st, << >>, << >>, "NOT_LEADER")
        ELSE IF nd.num_nodes = 1
        \* no request is made: the callback is invoked at once
        THEN Call(nd, st, << >>, <<Callback(req, "OK")>>, "OK")
        ELSE Call(nd, [st EXCEPT !.pending_reads = Append(@, req)], << >>, << >>, "OK")

RECURSIVE AckLoop(_, _)
\* the while loop of raft_read_process_ack over the requests reqs:
\* the requests it keeps and the callbacks it invokes
AckLoop(reqs, from_node) ==
    IF reqs = << >> THEN [pending |-> << >>, cb |-> << >>]
    ELSE LET req == Head(reqs)
             counted == IF ~req.acked[from_node]
                        THEN [req EXCEPT !.acked[from_node] = TRUE,
                                         !.acks_received = @ + 1]
                        ELSE req
             rest == AckLoop(Tail(reqs), from_node)
         IN  IF counted.acks_received >= counted.acks_needed
             THEN [pending |-> rest.pending,
                   cb |-> <<Callback(counted, "OK")>> \o rest.cb]
             ELSE [pending |-> <<counted>> \o rest.pending, cb |-> rest.cb]

raft_read_process_ack(nd, from_node, st) ==
    IF from_node < 0 \/ from_node >= nd.num_nodes THEN Call(nd, st, << >>, << >>, "OK")
    ELSE IF nd.role # "LEADER" THEN Call(nd, st, << >>, << >>, "OK")
    ELSE LET loop == AckLoop(st.pending_reads, from_node)
         IN  Call(nd, [st EXCEPT !.pending_reads = loop.pending], << >>, loop.cb, "OK")

\* every pending request gets its callback with RAFT_NOT_LEADER; the list is emptied
raft_read_cancel_all(nd, st) ==
    Call(nd, [st EXCEPT !.pending_reads = << >>], << >>,
         [i \in 1..Len(st.pending_reads) |->
             Callback(st.pending_reads[i], "NOT_LEADER")],
         "OK")

\* the node argument is not used: the count is that of the one list
raft_read_pending_count(nd, st) == Len(st.pending_reads)

raft_transfer_abort(st) ==
    [st EXCEPT !.transfer_state = "NONE", !.transfer_target = NONE]

\* returns the file-scope variables and the messages sent
raft_transfer_check_progress(nd, st) ==
    LET target == st.transfer_target
        msg == [type |-> "TIMEOUT_NOW", from |-> nd.node_id, to |-> target,
                term |-> nd.current_term, leader_id |-> nd.node_id]
    IN  IF st.transfer_state = "NONE" THEN [statics |-> st, out |-> << >>]
        ELSE IF nd.role # "LEADER"
        THEN [statics |-> raft_transfer_abort(st), out |-> << >>]
        ELSE IF target < 0 \/ target >= nd.num_nodes
        THEN [statics |-> raft_transfer_abort(st), out |-> << >>]
        ELSE IF nd.match_index[target] >= raft_log_last_index(nd.log)
        THEN [statics |-> [st EXCEPT !.transfer_state = "SENDING"], out |-> <<msg>>]
        ELSE [statics |-> st, out |-> << >>]

RECURSIVE BestFollower(_, _, _, _)
\* the for loop of raft_transfer_leadership that picks "the most up-to-date follower"
BestFollower(nd, i, best_match, target_id) ==
    IF i >= nd.num_nodes THEN target_id
    ELSE IF i # nd.node_id /\ nd.match_index[i] > best_match
    THEN BestFollower(nd, i + 1, nd.match_index[i], i)
    ELSE BestFollower(nd, i + 1, best_match, target_id)

raft_transfer_leadership(nd, st, target_id) ==
    LET target == IF target_id < 0 THEN BestFollower(nd, 0, 0, target_id) ELSE target_id
        pending == [st EXCEPT !.transfer_state = "PENDING", !.transfer_target = target]
        progress == raft_transfer_check_progress(nd, pending)
    IN  IF ~nd.running THEN Call(nd, st, << >>, << >>, "STOPPED")
        ELSE IF nd.role # "LEADER" THEN Call(nd, st, << >>, << >>, "NOT_LEADER")
        ELSE IF target_id = nd.node_id THEN Call(nd, st, << >>, << >>, "INVALID_ARG")
        ELSE IF target_id >= 0 /\ target_id >= nd.num_nodes
        THEN Call(nd, st, << >>, << >>, "INVALID_ARG")
        ELSE IF target < 0 THEN Call(nd, st, << >>, << >>, "INVALID_ARG")
        ELSE Call(nd, progress.statics, progress.out, << >>, "OK")

\* the command of a configuration entry: the byte 'A' or 'R', then the node id
CONFIG_CMD_ADD == 65
CONFIG_CMD_REMOVE == 82
ConfigCommand(op, node_id) == op + 256 * node_id

ensure_config_initialized(nd, config) ==
    IF ~config.allocated /\ nd.num_nodes > 0
    THEN [config EXCEPT !.allocated = TRUE,
                        !.nodes = [i \in 1..nd.num_nodes |-> i - 1],
                        !.node_count = nd.num_nodes]
    ELSE config

\* raft_add_node and raft_remove_node from "Check if another change is in progress"
\* on; node->storage is never assigned, so nothing is persisted
ConfigChange(nd, st, config, op, node_id) ==
    LET log == raft_log_append(nd.log, nd.current_term, ConfigCommand(op, node_id))
        index == raft_log_last_index(log)
        typed == [log EXCEPT !.entries[index - log.base_index].type = "CONFIG"]
        started == [config EXCEPT !.pending_node = node_id,
                                  !.pending_add = (op = CONFIG_CMD_ADD)]
    IN  IF config.pending_node >= 0
        THEN Call(nd, [st EXCEPT !.config = config], << >>, << >>, "INVALID_ARG")
        ELSE Call([nd EXCEPT !.log = typed], [st EXCEPT !.config = started],
                  << >>, << >>, "OK")

IsMember(config, node_id) ==
    \E i \in 1..config.node_count : config.nodes[i] = node_id

raft_add_node(nd, st, new_node_id) ==
    LET config == ensure_config_initialized(nd, st.config)
    IN  IF nd.role # "LEADER" THEN Call(nd, st, << >>, << >>, "NOT_LEADER")
        ELSE IF IsMember(config, new_node_id)
        THEN Call(nd, [st EXCEPT !.config = config], << >>, << >>, "INVALID_ARG")
        ELSE ConfigChange(nd, st, config, CONFIG_CMD_ADD, new_node_id)

raft_remove_node(nd, st, node_id) ==
    LET config == ensure_config_initialized(nd, st.config)
    IN  IF nd.role # "LEADER" THEN Call(nd, st, << >>, << >>, "NOT_LEADER")
        ELSE IF ~IsMember(config, node_id)
        THEN Call(nd, [st EXCEPT !.config = config], << >>, << >>, "INVALID_ARG")
        ELSE ConfigChange(nd, st, config, CONFIG_CMD_REMOVE, node_id)

\* the three observers initialise the configuration before they read it; what
\* they return is given here
raft_is_voting_member(nd, st, node_id) ==
    LET config == ensure_config_initialized(nd, st.config)
    IN  \/ IsMember(config, node_id)
        \/ config.pending_add /\ config.pending_node = node_id

raft_get_config_type(nd, st) ==
    LET config == ensure_config_initialized(nd, st.config)
    IN  IF config.pending_node >= 0 THEN "TRANSITIONING" ELSE "STABLE"

raft_get_cluster_size(nd, st) ==
    LET config == ensure_config_initialized(nd, st.config)
    IN  config.node_count
          + (IF config.pending_add /\ config.pending_node >= 0 THEN 1 ELSE 0)

\* memmove of the tail over the first slot that holds target_node
RemoveFirst(nodes, target_node) ==
    LET at == {i \in 1..Len(nodes) : nodes[i] = target_node}
    IN  IF at = {} THEN nodes
        ELSE LET i == CHOOSE j \in at : \A k \in at : j <= k
             IN  SubSeq(nodes, 1, i - 1) \o SubSeq(nodes, i + 1, Len(nodes))

\* the command is the operation byte followed by the node id
raft_apply_config_change(nd, st, entry) ==
    LET config == ensure_config_initialized(nd, st.config)
        op == entry.command % 256
        target_node == entry.command \div 256
        added == [config EXCEPT !.nodes = SubSeq(@, 1, config.node_count) \o <<target_node>>,
                                !.node_count = @ + 1]
        removed == IF IsMember(config, target_node)
                   THEN [config EXCEPT
                           !.nodes = RemoveFirst(SubSeq(@, 1, config.node_count), target_node),
                           !.node_count = @ - 1]
                   ELSE config
        changed == IF op = CONFIG_CMD_ADD THEN added
                   ELSE IF op = CONFIG_CMD_REMOVE THEN removed
                   ELSE config
        cleared == [changed EXCEPT !.pending_node = NONE, !.pending_add = FALSE]
    IN  IF entry.type # "CONFIG" THEN Call(nd, st, << >>, << >>, "OK")
        ELSE Call(IF op \in {CONFIG_CMD_ADD, CONFIG_CMD_REMOVE}
                  THEN [nd EXCEPT !.num_nodes = changed.node_count] ELSE nd,
                  [st EXCEPT !.config = cleared], << >>, << >>, "OK")

-----------------------------------------------------------------------------
(* The transport and the driver *)

RECURSIVE SendAll(_, _, _)
\* a transport that loses only what does not fit: send_fn for each message, in order
SendAll(s, out, capacity) ==
    IF out = << >> THEN s
    ELSE SendAll(IF Cardinality(s \cup {Head(out)}) <= capacity
                 THEN s \cup {Head(out)} ELSE s,
                 Tail(out), capacity)

\* net->connected[from][to]: env.isolated is the node net_isolate has cut off
Connected(m) == env.isolated = NONE \/ env.isolated \notin {m.from, m.to}

\* send_fn for each message of out.  The transport holds at most env.capacity
\* messages; a lossy one takes a message or loses it
\* (tests/integration/network_sim.c drops what does not fit and what crosses a partition)
NetSend(s, out) ==
    LET linked == SelectSeq(out, Connected)
    IN  IF env.lossy
        THEN {s \cup taken : taken \in
                {t \in SUBSET {linked[i] : i \in DOMAIN linked} :
                    Cardinality(s \cup t) <= env.capacity}}
        ELSE {SendAll(s, linked, env.capacity)}

\* the entries a step made a LEADER commit
LeaderCommits(old, new) ==
    IF new.role = "LEADER" /\ new.commit_index > old.commit_index
    THEN {[index |-> i, entry |-> raft_log_get(new.log, i),
           leader_term |-> new.current_term] :
              i \in (old.commit_index + 1)..new.commit_index}
    ELSE {}

\* node n made the call that returned res; base is the transport before its sends;
\* the call used up e elections and p proposals of the run's budget
Step(n, res, base, e, p) ==
    /\ env.elections >= e
    /\ env.proposals >= p
    /\ node' = [node EXCEPT ![n] = res.nd]
    /\ net' \in NetSend(base, res.out)
    /\ applied' = [applied EXCEPT ![n] = @ \o res.app]
    /\ committed' = committed \cup LeaderCommits(node[n], res.nd)
    /\ env' = [env EXCEPT !.elections = @ - e, !.proposals = @ - p]

\* ... and the call wrote nothing to the data directory and no file-scope variable
Finish(n, res, base, e, p) ==
    Step(n, res, base, e, p) /\ UNCHANGED <<disk, statics, read_done>>

\* the cluster is driven once every node was started (tests/integration/test_partition.c)
Started == \A i \in DOMAIN node : node[i].running

\* the transport hands over a message and forgets it, or (if it duplicates) keeps it
AfterDelivery(m) == IF env.duplicates THEN {net, net \ {m}} ELSE {net \ {m}}

\* every node id of the largest cluster
AllNodes == 0..2

\* who may start an election, by the number of elections the run has left: any node
\* of a set ...
AnyOf(nodes) == [e \in 1..MaxElections |-> nodes]

NoDisk == [state |-> NoFile, log |-> << >>, tail |-> "NONE", snapshot |-> NoFile]

\* the state after construction of a cluster of k nodes in the environment e
InitWith(sizes, e) ==
    \E k \in sizes :
        /\ node = [i \in 0..(k - 1) |-> raft_create(i, k)]
        /\ net = {}
        /\ applied = [i \in 0..(k - 1) |-> << >>]
        /\ committed = {}
        /\ disk = [i \in 0..(k - 1) |-> NoDisk]
        /\ statics = NoStatics
        /\ read_done = << >>
        /\ env = e

\* a lossy, duplicating transport of MaxMsgs messages; every tick is one election timeout
Init ==
    InitWith(ClusterSizes,
             [capacity |-> MaxMsgs, lossy |-> TRUE, duplicates |-> TRUE,
              tick_ms |-> RAFT_ELECTION_TIMEOUT_MIN_MS,
              elections |-> MaxElections, proposals |-> MaxProposals,
              max_log |-> MaxLog, standing |-> AnyOf(AllNodes), routed |-> FALSE,
              data_dir |-> FALSE, restarts |-> 0, snapshots |-> 0,
              calls |-> 0, faults |-> FALSE,
              isolated |-> NONE, cuts |-> 0, cut_term |-> 0, healed |-> NONE,
              turn |-> 0])

Start(n) ==
    /\ ~node[n].running
    /\ Finish(n, Ret(raft_start(node[n]), << >>, << >>), net, 0, 0)

Tick(n) ==
    /\ Started
    /\ \E timeout \in TimeoutChoices :
          LET res == raft_tick(node[n], env.tick_ms, timeout)
              \* raft_tick raises current_term only through raft_start_election
              started == IF res.nd.current_term > node[n].current_term THEN 1 ELSE 0
          IN  /\ started = 1 => (env.elections >= 1 /\ n \in env.standing[env.elections])
              /\ Finish(n, res, net, started, 0)

\* the driver hands a message of the transport to raft_receive_message; a routing
\* driver hands it the AppendEntries that carry no entries
ReceiveMessage(m) ==
    /\ Started
    /\ Connected(m)
    /\ (env.routed /\ m.type = "APPEND_ENTRIES") => m.entries_count = 0
    /\ m.to \in DOMAIN node
    /\ \E base \in AfterDelivery(m), timeout \in TimeoutChoices :
          Finish(m.to, raft_receive_message(node[m.to], m.from, m, timeout),
                 base, 0, 0)

\* net_tick finds that a message it holds crosses the partition and discards it
DropCut(m) ==
    /\ ~Connected(m)
    /\ net' = net \ {m}
    /\ UNCHANGED <<node, applied, committed, disk, statics, read_done, env>>

\* tick_cluster: raft_tick for node 0, 1, ... in turn (env.turn is the node whose
\* tick is next), then net_tick, which hands over or discards every message it
\* holds, those sent meanwhile included
RoundTick(n) ==
    /\ Started
    /\ env.turn = n
    /\ \E timeout \in TimeoutChoices :
          LET res == raft_tick(node[n], env.tick_ms, timeout)
              started == IF res.nd.current_term > node[n].current_term THEN 1 ELSE 0
          IN  /\ started = 1 => (env.elections >= 1 /\ n \in env.standing[env.elections])
              /\ node' = [node EXCEPT ![n] = res.nd]
              /\ net' \in NetSend(net, res.out)
              /\ applied' = [applied EXCEPT ![n] = @ \o res.app]
              /\ committed' = committed \cup LeaderCommits(node[n], res.nd)
              /\ env' = [env EXCEPT !.elections = @ - started, !.turn = @ + 1]
    /\ UNCHANGED <<disk, statics, read_done>>

\* a node that would time out but does not stand in this run has drawn a longer
\* timeout: its tick of this round is left out
SkipTick(n) ==
    /\ Started
    /\ env.turn = n
    /\ \A timeout \in TimeoutChoices :
          /\ raft_tick(node[n], env.tick_ms, timeout).nd.current_term > node[n].current_term
          /\ ~(env.elections >= 1 /\ n \in env.standing[env.elections])
    /\ env' = [env EXCEPT !.turn = @ + 1]
    /\ UNCHANGED <<node, net, applied, committed, disk, statics, read_done>>

DeliveryPhase == env.turn = Cardinality(DOMAIN node)

RoundReceive(m) == DeliveryPhase /\ ReceiveMessage(m)

RoundDrop(m) == DeliveryPhase /\ DropCut(m)

EndRound ==
    /\ DeliveryPhase
    /\ net = {}
    /\ env' = [env EXCEPT !.turn = 0]
    /\ UNCHANGED <<node, net, applied, committed, disk, statics, read_done>>

\* the elections a run has after the cut: the node of the other side that draws
\* the shortest timeouts may have to stand twice to reach a new term
CutElections == 2

\* the node of a side that draws the shortest timeouts
Shortest(side) == CHOOSE m \in side : \A k \in side : m <= k

\* "Isolate leader": net_isolate on the leader that wait_for_leader found, the one
\* LEADER of the cluster, at any point of a round; env.cut_term is original_term
\* of the test, and a heal that came before is over
Isolate(n) ==
    /\ env.cuts > 0
    /\ env.isolated = NONE
    /\ {m \in DOMAIN node : node[m].role = "LEADER"} = {n}
    /\ env' = [env EXCEPT !.isolated = n, !.cuts = @ - 1,
                          !.cut_term = node[n].current_term,
                          !.healed = NONE,
                          !.elections = CutElections,
                          !.standing = AnyOf({Shortest(DOMAIN node \ {n})})]
    /\ UNCHANGED <<node, net, applied, committed, disk, statics, read_done>>

\* "Heal partition": net_reconnect between two rounds, once the other side has a
\* leader
Reconnect ==
    /\ env.turn = 0
    /\ env.isolated # NONE
    /\ \E n \in DOMAIN node \ {env.isolated} : node[n].role = "LEADER"
    /\ env' = [env EXCEPT !.isolated = NONE, !.healed = env.isolated]
    /\ UNCHANGED <<node, net, applied, committed, disk, statics, read_done>>

\* the transport loses a message it holds
DropMessage(m) ==
    /\ env.lossy
    /\ net' = net \ {m}
    /\ UNCHANGED <<node, applied, committed, disk, statics, read_done, env>>

\* the clients propose distinct commands: the payload is the number of proposals
\* the run has left
NextCommand == env.proposals

Propose(n) ==
    /\ Started
    /\ node[n].role = "LEADER"
    /\ raft_log_last_index(node[n].log) < env.max_log
    /\ \E command \in {NextCommand} :
          Finish(n, Ret(raft_propose(node[n], command), << >>, << >>), net, 0, 1)

\* the driver hands an AppendEntries to raft_handle_append_entries_with_log and
\* the response it filled to the transport, as tests/unit/test_phase3.c does; a
\* routing driver hands it the AppendEntries that carry entries
DeliverAppendEntries(m) ==
    /\ Started
    /\ m.type = "APPEND_ENTRIES"
    /\ env.routed => m.entries_count > 0
    /\ m.to \in DOMAIN node
    /\ \E base \in AfterDelivery(m), timeout \in TimeoutChoices :
          Finish(m.to, raft_handle_append_entries_with_log(node[m.to], m, timeout),
                 base, 0, 0)

\* the driver hands an AppendEntries response to raft_handle_append_entries_response
DeliverAppendEntriesResponse(m) ==
    /\ Started
    /\ m.type = "APPEND_ENTRIES_RESPONSE"
    /\ m.to \in DOMAIN node
    /\ \E base \in AfterDelivery(m), timeout \in TimeoutChoices :
          Finish(m.to,
                 raft_handle_append_entries_response(node[m.to], m.from, m, timeout),
                 base, 0, 0)

ReplicateLog(n) ==
    /\ Started
    /\ node[n].role = "LEADER"
    /\ Finish(n, raft_replicate_log(node[n]), net, 0, 0)

\* the application proposes two commands at once
ProposeBatch(n) ==
    /\ Started
    /\ node[n].role = "LEADER"
    /\ raft_log_last_index(node[n].log) + 2 <= env.max_log
    /\ env.proposals >= 2
    /\ \E appended \in (IF env.faults THEN 0..2 ELSE {2}),
          accepted \in (IF node[n].storage THEN 0..2 ELSE {2}) :
          LET res == raft_propose_batch(node[n], disk[n],
                                        <<NextCommand, NextCommand - 1>>,
                                        appended, accepted)
          IN  /\ Step(n, Ret(res.nd, << >>, << >>), net, 0, 2)
              /\ disk' = [disk EXCEPT ![n] = res.disk]
              /\ UNCHANGED <<statics, read_done>>

\* the process of node n ends and starts again: raft_destroy, then raft_create with
\* the configuration of the first start (the same data directory)
Restart(n) ==
    /\ env.restarts > 0
    /\ node' = [node EXCEPT ![n] = raft_create(n, node[n].num_nodes)]
    /\ env' = [env EXCEPT !.restarts = @ - 1]
    /\ UNCHANGED <<net, applied, committed, disk, statics, read_done>>

\* the driver installs a snapshot it received for node n
InstallSnapshot(n, meta) ==
    /\ env.snapshots > 0
    /\ node' = [node EXCEPT ![n] = raft_snapshot_install(node[n], meta)]
    /\ env' = [env EXCEPT !.snapshots = @ - 1]
    /\ UNCHANGED <<net, applied, committed, disk, statics, read_done>>

\* a call of the application or of the driver on node n, which may change the
\* file-scope variables and invoke read callbacks; it uses up c of the run's calls
\* and p of its proposals
Client(n, res, base, c, p) ==
    /\ env.calls >= c
    /\ env.proposals >= p
    /\ node' = [node EXCEPT ![n] = res.nd]
    /\ statics' = res.statics
    /\ read_done' = read_done \o
          [i \in 1..Len(res.cb) |->
              [node |-> n, status |-> res.cb[i].status,
               read_index |-> res.cb[i].read_index, acked |-> res.cb[i].acked,
               last_applied |-> res.nd.last_applied]]
    /\ net' \in NetSend(base, res.out)
    /\ committed' = committed \cup LeaderCommits(node[n], res.nd)
    /\ env' = [env EXCEPT !.calls = @ - c, !.proposals = @ - p]
    /\ UNCHANGED applied

\* a client that does not know who leads proposes at node n
CallPropose(n) ==
    /\ Started
    /\ raft_log_last_index(node[n].log) < env.max_log
    /\ Client(n, Call(raft_propose(node[n], NextCommand), statics, << >>, << >>,
                      raft_propose_status(node[n])),
              net, 1, IF raft_propose_status(node[n]) = "OK" THEN 1 ELSE 0)
    /\ UNCHANGED disk

CallProposeBatch(n) ==
    /\ Started
    /\ raft_log_last_index(node[n].log) + 2 <= env.max_log
    /\ env.proposals >= 2
    /\ \E appended \in (IF env.faults THEN 0..2 ELSE {2}),
          accepted \in (IF node[n].storage THEN 0..2 ELSE {2}) :
          LET res == raft_propose_batch(node[n], disk[n],
                                        <<NextCommand, NextCommand - 1>>,
                                        appended, accepted)
          IN  /\ Client(n, Call(res.nd, statics, << >>, << >>, res.status),
                        net, 1, IF res.status = "OK" THEN 2 ELSE 0)
              /\ disk' = [disk EXCEPT ![n] = res.disk]

ReadIndex(n) ==
    /\ Started
    /\ Client(n, raft_read_index(node[n], statics), net, 1, 0)
    /\ UNCHANGED disk

\* "Called when a heartbeat response is received" (read.h:43-46): the driver hands
\* the sender of an AppendEntries response to raft_read_process_ack
ReadAck(m) ==
    /\ Started
    /\ m.type = "APPEND_ENTRIES_RESPONSE"
    /\ m.to \in DOMAIN node
    /\ \E base \in AfterDelivery(m) :
          Client(m.to, raft_read_process_ack(node[m.to], m.from, statics), base, 0, 0)
    /\ UNCHANGED disk

\* "Simulate leadership loss - cancel all reads" (tests/unit/test_phase6.c:274-275)
ReadCancelAll(n) ==
    /\ Started
    /\ Client(n, raft_read_cancel_all(node[n], statics), net, 1, 0)
    /\ UNCHANGED disk

TransferAbort(n) ==
    /\ Started
    /\ Client(n, Call(node[n], raft_transfer_abort(statics), << >>, << >>, "OK"),
              net, 1, 0)
    /\ UNCHANGED disk

TransferLeadership(n, target_id) ==
    /\ Started
    /\ Client(n, raft_transfer_leadership(node[n], statics, target_id), net, 1, 0)
    /\ UNCHANGED disk

AddNode(n, new_node_id) ==
    /\ Started
    /\ raft_log_last_index(node[n].log) < env.max_log
    /\ Client(n, raft_add_node(node[n], statics, new_node_id), net, 1, 0)
    /\ UNCHANGED disk

RemoveNode(n, node_id) ==
    /\ Started
    /\ raft_log_last_index(node[n].log) < env.max_log
    /\ Client(n, raft_remove_node(node[n], statics, node_id), net, 1, 0)
    /\ UNCHANGED disk

\* the calls of the log's own functions on the log of node n
LogCall(n, log) ==
    /\ env.calls > 0
    /\ node' = [node EXCEPT ![n].log = log]
    /\ env' = [env EXCEPT !.calls = @ - 1]
    /\ UNCHANGED <<net, applied, committed, disk, statics, read_done>>

LogAppend(n, term) ==
    /\ Len(node[n].log.entries) < env.max_log
    /\ LogCall(n, raft_log_append(node[n].log, term, NextCommand))

LogTruncateAfter(n, after_index) ==
    LogCall(n, raft_log_truncate_after(node[n].log, after_index))

LogTruncateBefore(n, before_index) ==
    LogCall(n, raft_log_truncate_before(node[n].log, before_index))

\* node->data_dir is NULL; the threshold of the build does not matter then
MaybeCompact(n) ==
    /\ env.calls > 0
    /\ node' = [node EXCEPT ![n] =
                  raft_maybe_compact(node[n], FALSE, env.max_log,
                                     statics.snapshot_cb # NONE)]
    /\ env' = [env EXCEPT !.calls = @ - 1]
    /\ UNCHANGED <<net, applied, committed, disk, statics, read_done>>

SetSnapshotCallback(n) ==
    /\ Client(n, raft_set_snapshot_callback(node[n], statics, n), net, 1, 0)
    /\ UNCHANGED disk

\* the driver has opened the storage of node n's data directory
\* (raft_storage_open) and calls its functions; it uses up one of the run's calls
StorageCall(n, d) ==
    /\ env.calls > 0
    /\ disk' = [disk EXCEPT ![n] = d]
    /\ env' = [env EXCEPT !.calls = @ - 1]
    /\ UNCHANGED <<node, net, applied, committed, statics, read_done>>

StorageSaveState(n, current_term, voted_for) ==
    StorageCall(n, raft_storage_save_state(disk[n], current_term, voted_for))

\* the driver persists the entries of the log in their order: the next one is the
\* first entry of the log above the last record of the file
StorageAppendEntry(n) ==
    LET last_record == IF disk[n].log = << >> THEN 0
                       ELSE disk[n].log[Len(disk[n].log)].index
        next == IF last_record >= node[n].log.base_index THEN last_record + 1
                ELSE node[n].log.base_index + 1
    IN  /\ disk[n].tail = "NONE"
        /\ raft_log_get(node[n].log, next) # NoEntry
        /\ StorageCall(n, raft_storage_append_entry(disk[n],
                                                    raft_log_get(node[n].log, next)))

\* raft_snapshot_install on a node whose data_dir field is set (raft_create
\* leaves it NULL: the driver assigns it): raft_snapshot_create writes the file,
\* then the log is emptied and anchored
InstallSnapshotStored(n, meta) ==
    /\ env.snapshots > 0
    /\ node' = [node EXCEPT ![n] = raft_snapshot_install(node[n], meta)]
    /\ disk' = [disk EXCEPT ![n] =
                  raft_snapshot_create(disk[n], meta.last_index, meta.last_term)]
    /\ env' = [env EXCEPT !.snapshots = @ - 1]
    /\ UNCHANGED <<net, applied, committed, statics, read_done>>

\* raft_maybe_compact on a node whose data_dir field is set, with a snapshot
\* callback registered and the entries up to applied_to applied
\* (tests/unit/test_phase6.c:350-357 sets last_applied itself); the threshold of
\* the build is taken to be 1
CompactStored(n, applied_to) ==
    LET nd == [node[n] EXCEPT !.last_applied = applied_to]
        entry == raft_log_get(nd.log, applied_to)
    IN  /\ env.snapshots > 0
        /\ entry # NoEntry
        /\ node' = [node EXCEPT ![n] = raft_maybe_compact(nd, TRUE, 1, TRUE)]
        /\ disk' = [disk EXCEPT ![n] =
                      raft_snapshot_create(disk[n], applied_to, entry.term)]
        /\ env' = [env EXCEPT !.snapshots = @ - 1]
        /\ UNCHANGED <<net, applied, committed, statics, read_done>>

\* what can go wrong with the files of a data directory between two runs
Damages ==
    {"state magic", "state version", "state crc",
     "snapshot magic", "snapshot version", "snapshot crc",
     "record crc", "cut in header", "cut in payload"}

\* the file after the damage: a magic or version that is not the expected one, a
\* field changed under its checksum (tests/unit/test_phase4.c:191-196 overwrites
\* the term), or raft_log.dat cut inside its last record
Damaged(d, damage, i) ==
    CASE damage = "state magic" -> [d EXCEPT !.state.magic = 0]
      [] damage = "state version" -> [d EXCEPT !.state.version = 0]
      [] damage = "state crc" -> [d EXCEPT !.state.current_term = @ + 1]
      [] damage = "snapshot magic" -> [d EXCEPT !.snapshot.magic = 0]
      [] damage = "snapshot version" -> [d EXCEPT !.snapshot.version = 0]
      [] damage = "snapshot crc" -> [d EXCEPT !.snapshot.last_index = @ + 1]
      [] damage = "record crc" -> [d EXCEPT !.log[i].term = @ + 1]
      [] damage = "cut in header" ->
            [d EXCEPT !.log = SubSeq(@, 1, Len(@) - 1), !.tail = "HEADER"]
      [] damage = "cut in payload" ->
            [d EXCEPT !.log = SubSeq(@, 1, Len(@) - 1), !.tail = "PAYLOAD"]

\* one file of the directory of node n is damaged, once in a run
Damage(n, damage, i) ==
    /\ env.faults
    /\ damage \in {"state magic", "state version", "state crc"} => disk[n].state.found
    /\ damage \in {"snapshot magic", "snapshot version", "snapshot crc"}
          => disk[n].snapshot.found
    /\ damage \in {"record crc", "cut in header", "cut in payload"}
          => i \in DOMAIN disk[n].log
    /\ damage \in {"cut in header", "cut in payload"} => i = Len(disk[n].log)
    /\ disk' = [disk EXCEPT ![n] = Damaged(disk[n], damage, i)]
    /\ env' = [env EXCEPT !.faults = FALSE]
    /\ UNCHANGED <<node, net, applied, committed, statics, read_done>>

\* the process of node n ends; the next one creates the node again and calls
\* raft_recover with the storage of the same directory
Recover(n) ==
    /\ env.restarts > 0
    /\ node' = [node EXCEPT ![n] =
                  raft_recover(raft_create(n, node[n].num_nodes), disk[n]).nd]
    /\ env' = [env EXCEPT !.restarts = @ - 1]
    /\ UNCHANGED <<net, applied, committed, disk, statics, read_done>>

\* "Apply the config change" (tests/unit/test_phase5.c:214-215): the driver hands
\* an entry of the log to raft_apply_config_change.  It stops short of a node
\* count beyond the leader arrays, which raft_become_leader sized for the count
\* of that time
ApplyConfigChange(n, i) ==
    /\ Started
    /\ raft_log_get(node[n].log, i) # NoEntry
    /\ LET res == raft_apply_config_change(node[n], statics, raft_log_get(node[n].log, i))
       IN  /\ res.nd.num_nodes \in 1..Cardinality(DOMAIN node[n].match_index)
           /\ Client(n, res, net, 1, 0)
    /\ UNCHANGED disk

ApplyCommitted(n) ==
    /\ node[n].last_applied < node[n].commit_index
    /\ Finish(n, raft_apply_committed(node[n]), net, 0, 0)

ApplyBatch(n) ==
    /\ node[n].last_applied < node[n].commit_index
    /\ \E max_entries \in {0, 1} :
          Finish(n, raft_apply_batch(node[n], max_entries), net, 0, 0)

\* the cluster driven through raft_start, raft_tick, raft_receive_message, raft_propose
NextDeliver ==
    \/ \E n \in DOMAIN node : Start(n)
    \/ \E n \in DOMAIN node : Tick(n)
    \/ \E m \in net : ReceiveMessage(m)
    \/ \E m \in net : DropMessage(m)
    \/ \E n \in DOMAIN node : Propose(n)

SpecDeliver == Init /\ [][NextDeliver]_vars

\* ... with the AppendEntries responses, which raft_receive_message leaves alone,
\* handed to raft_handle_append_entries_response
NextAck ==
    \/ NextDeliver
    \/ \E m \in net : DeliverAppendEntriesResponse(m)

SpecAck == Init /\ [][NextAck]_vars

\* the budgets of a run that replicates
ReplElections == 2
ReplProposals == 2
ReplLog == 2
\* with ReplElections = 2 at most two nodes ever stand for election, and the nodes
\* are interchangeable: they are taken to be nodes 0 and 1
ReplStanding == {0, 1}
\* ... or, as the nodes are interchangeable, node 0 for the first election and
\* node 1 for the second
InTurn == [e \in 1..ReplElections |-> {ReplElections - e}]

InitRepl ==
    InitWith(ClusterSizes,
             [capacity |-> MaxMsgs, lossy |-> TRUE, duplicates |-> FALSE,
              tick_ms |-> RAFT_ELECTION_TIMEOUT_MIN_MS,
              elections |-> ReplElections, proposals |-> ReplProposals,
              max_log |-> ReplLog, standing |-> AnyOf(ReplStanding), routed |-> FALSE,
              data_dir |-> FALSE, restarts |-> 0, snapshots |-> 0,
              calls |-> 0, faults |-> FALSE,
              isolated |-> NONE, cuts |-> 0, cut_term |-> 0, healed |-> NONE,
              turn |-> 0])

\* ... and with the AppendEntries handed to the handler of replication.c
NextRepl ==
    \/ NextAck
    \/ \E m \in net : DeliverAppendEntries(m)
    \/ \E n \in DOMAIN node : ReplicateLog(n)

SpecRepl == InitRepl /\ [][NextRepl]_vars

\* the budgets of a run whose transport holds two messages and loses none, and
\* whose driver routes the AppendEntries by what they carry
WideMsgs == 2
WideProposals == 4

InitWide ==
    InitWith({3},
             [capacity |-> WideMsgs, lossy |-> FALSE, duplicates |-> FALSE,
              tick_ms |-> RAFT_ELECTION_TIMEOUT_MIN_MS,
              elections |-> ReplElections, proposals |-> WideProposals,
              max_log |-> ReplLog, standing |-> InTurn, routed |-> TRUE,
              data_dir |-> FALSE, restarts |-> 0, snapshots |-> 0,
              calls |-> 0, faults |-> FALSE,
              isolated |-> NONE, cuts |-> 0, cut_term |-> 0, healed |-> NONE,
              turn |-> 0])

\* ... and with the driver calling the apply functions
NextApply ==
    \/ \E n \in DOMAIN node : Start(n)
    \/ \E n \in DOMAIN node : Tick(n)
    \/ \E m \in net : ReceiveMessage(m)
    \/ \E n \in DOMAIN node : Propose(n)
    \/ \E m \in net : DeliverAppendEntriesResponse(m)
    \/ \E m \in net : DeliverAppendEntries(m)
    \/ \E n \in DOMAIN node : ReplicateLog(n)
    \/ \E n \in DOMAIN node : ApplyCommitted(n)
    \/ \E n \in DOMAIN node : ApplyBatch(n)

SpecApply == InitWide /\ [][NextApply]_vars

\* a run whose nodes are created with a data directory and may be restarted
InitStore ==
    InitWith(ClusterSizes,
             [capacity |-> MaxMsgs, lossy |-> TRUE, duplicates |-> FALSE,
              tick_ms |-> RAFT_ELECTION_TIMEOUT_MIN_MS,
              elections |-> ReplElections, proposals |-> ReplProposals,
              max_log |-> ReplLog, standing |-> AnyOf(ReplStanding), routed |-> FALSE,
              data_dir |-> TRUE, restarts |-> MaxRestarts, snapshots |-> 0,
              calls |-> 0, faults |-> FALSE,
              isolated |-> NONE, cuts |-> 0, cut_term |-> 0, healed |-> NONE,
              turn |-> 0])

NextStore ==
    \/ NextDeliver
    \/ \E n \in DOMAIN node : ProposeBatch(n)
    \/ \E n \in DOMAIN node : Restart(n)

SpecStore == InitStore /\ [][NextStore]_vars

\* the budgets of a run whose driver ticks once a heartbeat interval and never stops
FairElections == 1
FairProposals == 1

InitFair ==
    InitWith(ClusterSizes,
             [capacity |-> MaxMsgs, lossy |-> FALSE, duplicates |-> FALSE,
              tick_ms |-> RAFT_HEARTBEAT_INTERVAL_MS,
              elections |-> FairElections, proposals |-> FairProposals,
              max_log |-> MaxLog, standing |-> AnyOf(AllNodes), routed |-> FALSE,
              data_dir |-> FALSE, restarts |-> 0, snapshots |-> 0,
              calls |-> 0, faults |-> FALSE,
              isolated |-> NONE, cuts |-> 0, cut_term |-> 0, healed |-> NONE,
              turn |-> 0])

NextFair ==
    \/ \E n \in DOMAIN node : Start(n)
    \/ \E n \in DOMAIN node : Tick(n)
    \/ \E m \in net : ReceiveMessage(m)
    \/ \E n \in DOMAIN node : Propose(n)
    \/ \E n \in DOMAIN node : ApplyCommitted(n)

\* the driver keeps starting, ticking and applying on every node, and hands over
\* the message the transport holds (it holds one at a time and loses none it took)
Fairness ==
    /\ \A n \in AllNodes : WF_vars(n \in DOMAIN node /\ Start(n))
    /\ \A n \in AllNodes : WF_vars(n \in DOMAIN node /\ Tick(n))
    /\ \A n \in AllNodes : WF_vars(n \in DOMAIN node /\ ApplyCommitted(n))
    /\ WF_vars(\E m \in net : ReceiveMessage(m))

FairSpec == InitFair /\ [][NextFair]_vars /\ Fairness

\* the budgets of a run in which one node is elected and snapshots are installed;
\* the transport holds one message and loses none it took
SnapElections == 1
SnapProposals == 3
SnapLog == 3
MaxSnapshots == 1
\* the largest index a snapshot covers
SnapIndex == 2

\* the metadata of the snapshots the driver installs
SnapshotMetas == [last_index : 1..SnapIndex, last_term : {1}]

InitSnap ==
    InitWith(ClusterSizes,
             [capacity |-> MaxMsgs, lossy |-> FALSE, duplicates |-> FALSE,
              tick_ms |-> RAFT_ELECTION_TIMEOUT_MIN_MS,
              elections |-> SnapElections, proposals |-> SnapProposals,
              max_log |-> SnapLog, standing |-> AnyOf({0}), routed |-> TRUE,
              data_dir |-> FALSE, restarts |-> 0, snapshots |-> MaxSnapshots,
              calls |-> 0, faults |-> FALSE,
              isolated |-> NONE, cuts |-> 0, cut_term |-> 0, healed |-> NONE,
              turn |-> 0])

NextSnap ==
    \/ \E n \in DOMAIN node : Start(n)
    \/ \E n \in DOMAIN node : Tick(n)
    \/ \E m \in net : ReceiveMessage(m)
    \/ \E n \in DOMAIN node : Propose(n)
    \/ \E m \in net : DeliverAppendEntriesResponse(m)
    \/ \E m \in net : DeliverAppendEntries(m)
    \/ \E n \in DOMAIN node : ReplicateLog(n)
    \/ \E n \in DOMAIN node : ApplyCommitted(n)
    \/ \E n \in DOMAIN node, meta \in SnapshotMetas : InstallSnapshot(n, meta)

SpecSnap == InitSnap /\ [][NextSnap]_vars

\* the budget of a run of proposals and applies without replication
SoloProposals == 3

InitSolo ==
    InitWith(ClusterSizes,
             [capacity |-> MaxMsgs, lossy |-> FALSE, duplicates |-> FALSE,
              tick_ms |-> RAFT_HEARTBEAT_INTERVAL_MS,
              elections |-> FairElections, proposals |-> SoloProposals,
              max_log |-> SoloProposals, standing |-> AnyOf({0}), routed |-> FALSE,
              data_dir |-> FALSE, restarts |-> 0, snapshots |-> 0,
              calls |-> 0, faults |-> FALSE,
              isolated |-> NONE, cuts |-> 0, cut_term |-> 0, healed |-> NONE,
              turn |-> 0])

NextSolo ==
    \/ \E n \in DOMAIN node : Start(n)
    \/ \E n \in DOMAIN node : Tick(n)
    \/ \E m \in net : ReceiveMessage(m)
    \/ \E n \in DOMAIN node : Propose(n)
    \/ \E n \in DOMAIN node : ApplyCommitted(n)

SpecSolo == InitSolo /\ [][NextSolo]_vars

\* the budget of a run of batch proposals in which an allocation may fail
BatchProposals == 4

InitBatch ==
    InitWith(ClusterSizes,
             [capacity |-> MaxMsgs, lossy |-> FALSE, duplicates |-> FALSE,
              tick_ms |-> RAFT_HEARTBEAT_INTERVAL_MS,
              elections |-> FairElections, proposals |-> BatchProposals,
              max_log |-> BatchProposals, standing |-> AnyOf({0}), routed |-> FALSE,
              data_dir |-> FALSE, restarts |-> 0, snapshots |-> 0,
              calls |-> 0, faults |-> TRUE,
              isolated |-> NONE, cuts |-> 0, cut_term |-> 0, healed |-> NONE,
              turn |-> 0])

NextBatch ==
    \/ \E n \in DOMAIN node : Start(n)
    \/ \E n \in DOMAIN node : Tick(n)
    \/ \E m \in net : ReceiveMessage(m)
    \/ \E n \in DOMAIN node : ProposeBatch(n)

SpecBatch == InitBatch /\ [][NextBatch]_vars

\* the budgets of a run in which clients call any node
MaxCalls == 2
OpsProposals == 2
\* the transfer targets and the node ids the clients name: none, every node of the
\* largest cluster, and one that is no node
TransferTargets == NONE..3
MemberIds == NONE..3

InitOps ==
    InitWith(ClusterSizes,
             [capacity |-> MaxMsgs, lossy |-> FALSE, duplicates |-> FALSE,
              tick_ms |-> RAFT_HEARTBEAT_INTERVAL_MS,
              elections |-> FairElections, proposals |-> OpsProposals,
              max_log |-> OpsProposals, standing |-> AnyOf({0}), routed |-> FALSE,
              data_dir |-> FALSE, restarts |-> 0, snapshots |-> 0,
              calls |-> MaxCalls, faults |-> FALSE,
              isolated |-> NONE, cuts |-> 0, cut_term |-> 0, healed |-> NONE,
              turn |-> 0])

NextOps ==
    \/ \E n \in DOMAIN node : Start(n)
    \/ \E n \in DOMAIN node : Tick(n)
    \/ \E m \in net : ReceiveMessage(m)
    \/ \E n \in DOMAIN node : CallPropose(n)
    \/ \E n \in DOMAIN node : CallProposeBatch(n)
    \/ \E n \in DOMAIN node : ReadIndex(n)
    \/ \E m \in net : ReadAck(m)
    \/ \E n \in DOMAIN node, target_id \in TransferTargets :
          TransferLeadership(n, target_id)
    \/ \E n \in DOMAIN node, id \in MemberIds : AddNode(n, id)
    \/ \E n \in DOMAIN node, id \in MemberIds : RemoveNode(n, id)
    \/ \E n \in DOMAIN node : ApplyCommitted(n)

SpecOps == InitOps /\ [][NextOps]_vars

\* a run of tick_cluster rounds in which the leader is cut off once and
\* reconnected; one node stands before the cut and one after it (theirs are the
\* shortest timeouts); the transport has room for every message of a round
CutMsgs == 8
MaxCuts == 1

InitCut ==
    InitWith({3},
             [capacity |-> CutMsgs, lossy |-> FALSE, duplicates |-> FALSE,
              tick_ms |-> RAFT_HEARTBEAT_INTERVAL_MS,
              elections |-> FairElections, proposals |-> 0,
              max_log |-> 0, standing |-> AnyOf(AllNodes), routed |-> FALSE,
              data_dir |-> FALSE, restarts |-> 0, snapshots |-> 0,
              calls |-> 0, faults |-> FALSE,
              isolated |-> NONE, cuts |-> MaxCuts, cut_term |-> 0, healed |-> NONE,
              turn |-> 0])

\* the driver's loop but for its changes of the partition
RoundNext ==
    \/ \E n \in DOMAIN node : Start(n)
    \/ \E n \in DOMAIN node : RoundTick(n)
    \/ \E n \in DOMAIN node : SkipTick(n)
    \/ \E m \in net : RoundReceive(m)
    \/ \E m \in net : RoundDrop(m)
    \/ EndRound

NextCut ==
    \/ RoundNext
    \/ \E n \in DOMAIN node : Isolate(n)
    \/ Reconnect

\* the loops of the test call tick_cluster again and again
FairnessCut == WF_vars(RoundNext)

FairCut == InitCut /\ [][NextCut]_vars /\ FairnessCut

\* three elections and one proposal under ticks of one heartbeat interval: a node
\* that led and proposed is asked for its vote twice, with time ticked in between
VoteElections == 3
VoteProposals == 1

InitVote ==
    InitWith({3},
             [capacity |-> MaxMsgs, lossy |-> FALSE, duplicates |-> FALSE,
              tick_ms |-> RAFT_HEARTBEAT_INTERVAL_MS,
              elections |-> VoteElections, proposals |-> VoteProposals,
              max_log |-> MaxLog, standing |-> AnyOf(AllNodes), routed |-> FALSE,
              data_dir |-> FALSE, restarts |-> 0, snapshots |-> 0,
              calls |-> 0, faults |-> FALSE,
              isolated |-> NONE, cuts |-> 0, cut_term |-> 0, healed |-> NONE,
              turn |-> 0])

NextVote ==
    \/ \E n \in DOMAIN node : Start(n)
    \/ \E n \in DOMAIN node : Tick(n)
    \/ \E m \in net : ReceiveMessage(m)
    \/ \E n \in DOMAIN node : Propose(n)

SpecVote == InitVote /\ [][NextVote]_vars

\* the budget of a run in which two nodes lead in turn, one changes the membership
\* and one proposes
KindElections == 2
KindProposals == 1
KindCalls == 1
\* the transport has room for the two messages a node sends its peers at once
KindMsgs == 2

InitKind ==
    InitWith({3},
             [capacity |-> KindMsgs, lossy |-> FALSE, duplicates |-> FALSE,
              tick_ms |-> RAFT_ELECTION_TIMEOUT_MIN_MS,
              elections |-> KindElections, proposals |-> KindProposals,
              max_log |-> KindProposals, standing |-> AnyOf(AllNodes), routed |-> TRUE,
              data_dir |-> FALSE, restarts |-> 0, snapshots |-> 0,
              calls |-> KindCalls, faults |-> FALSE,
              isolated |-> NONE, cuts |-> 0, cut_term |-> 0, healed |-> NONE,
              turn |-> 0])

NextKind ==
    \/ \E n \in DOMAIN node : Start(n)
    \/ \E n \in DOMAIN node : Tick(n)
    \/ \E m \in net : ReceiveMessage(m)
    \/ \E n \in DOMAIN node, id \in MemberIds : AddNode(n, id)
    \/ \E n \in DOMAIN node, id \in MemberIds : RemoveNode(n, id)
    \/ \E n \in DOMAIN node : Propose(n)
    \/ \E n \in DOMAIN node : ReplicateLog(n)
    \/ \E m \in net : DeliverAppendEntries(m)

SpecKind == InitKind /\ [][NextKind]_vars

\* the budget of a run of calls on one log: appends of up to LogLen entries of
\* terms 1..LogTerms, truncations at 0..LogIndex, snapshots
LogCalls == 5
LogLen == 3
LogTerms == 2
LogIndex == 5

InitLog ==
    InitWith({1},
             [capacity |-> MaxMsgs, lossy |-> FALSE, duplicates |-> FALSE,
              tick_ms |-> RAFT_HEARTBEAT_INTERVAL_MS,
              elections |-> 0, proposals |-> 0,
              max_log |-> LogLen, standing |-> AnyOf({0}), routed |-> FALSE,
              data_dir |-> FALSE, restarts |-> 0, snapshots |-> MaxSnapshots,
              calls |-> LogCalls, faults |-> FALSE,
              isolated |-> NONE, cuts |-> 0, cut_term |-> 0, healed |-> NONE,
              turn |-> 0])

NextLog ==
    \/ \E n \in DOMAIN node, term \in 1..LogTerms : LogAppend(n, term)
    \/ \E n \in DOMAIN node, i \in 0..LogIndex : LogTruncateAfter(n, i)
    \/ \E n \in DOMAIN node, i \in 0..LogIndex : LogTruncateBefore(n, i)
    \/ \E n \in DOMAIN node, meta \in SnapshotMetas : InstallSnapshot(n, meta)
    \/ \E n \in DOMAIN node : MaybeCompact(n)

SpecLog == InitLog /\ [][NextLog]_vars

\* the budget of a run on one data directory: appends of up to RecoverLog
\* entries, calls of the storage, a snapshot, a damage and a recovery
RecoverCalls == 4
RecoverLog == 2

InitRecover ==
    InitWith({1},
             [capacity |-> MaxMsgs, lossy |-> FALSE, duplicates |-> FALSE,
              tick_ms |-> RAFT_HEARTBEAT_INTERVAL_MS,
              elections |-> 0, proposals |-> 0,
              max_log |-> RecoverLog, standing |-> AnyOf({0}), routed |-> FALSE,
              data_dir |-> TRUE, restarts |-> MaxRestarts, snapshots |-> MaxSnapshots,
              calls |-> RecoverCalls, faults |-> TRUE,
              isolated |-> NONE, cuts |-> 0, cut_term |-> 0, healed |-> NONE,
              turn |-> 0])

NextRecover ==
    \/ \E n \in DOMAIN node, term \in 1..LogTerms : LogAppend(n, term)
    \/ \E n \in DOMAIN node : StorageAppendEntry(n)
    \/ \E n \in DOMAIN node, term \in 1..LogTerms, vote \in {NONE, 0} :
          StorageSaveState(n, term, vote)
    \/ \E n \in DOMAIN node, meta \in SnapshotMetas : InstallSnapshotStored(n, meta)
    \/ \E n \in DOMAIN node, i \in 1..RecoverLog : CompactStored(n, i)
    \/ \E n \in DOMAIN node, damage \in Damages, i \in 1..RecoverLog :
          Damage(n, damage, i)
    \/ \E n \in DOMAIN node : Recover(n)

SpecRecover == InitRecover /\ [][NextRecover]_vars

\* the budget of a run of membership changes with replication
MemberCalls == 4
MemberLog == 2

InitMember ==
    InitWith({3},
             [capacity |-> MaxMsgs, lossy |-> FALSE, duplicates |-> FALSE,
              tick_ms |-> RAFT_ELECTION_TIMEOUT_MIN_MS,
              elections |-> FairElections, proposals |-> 0,
              max_log |-> MemberLog, standing |-> AnyOf({0}), routed |-> TRUE,
              data_dir |-> FALSE, restarts |-> 0, snapshots |-> 0,
              calls |-> MemberCalls, faults |-> FALSE,
              isolated |-> NONE, cuts |-> 0, cut_term |-> 0, healed |-> NONE,
              turn |-> 0])

NextMember ==
    \/ \E n \in DOMAIN node : Start(n)
    \/ \E n \in DOMAIN node : Tick(n)
    \/ \E m \in net : ReceiveMessage(m)
    \/ \E n \in DOMAIN node, id \in MemberIds : AddNode(n, id)
    \/ \E n \in DOMAIN node, id \in MemberIds : RemoveNode(n, id)
    \/ \E n \in DOMAIN node, i \in 1..MemberLog : ApplyConfigChange(n, i)
    \/ \E m \in net : DeliverAppendEntriesResponse(m)
    \/ \E m \in net : DeliverAppendEntries(m)
    \/ \E n \in DOMAIN node : ReplicateLog(n)
    \/ \E n \in DOMAIN node : ApplyCommitted(n)

SpecMember == InitMember /\ [][NextMember]_vars

\* the budget of a run of the calls that use file-scope variables, in which a
\* leader with reads and a transfer pending is deposed: node 0 stands first,
\* node 1 second
LossCalls == 2

InitLoss ==
    InitWith({3},
             [capacity |-> MaxMsgs, lossy |-> FALSE, duplicates |-> FALSE,
              tick_ms |-> RAFT_ELECTION_TIMEOUT_MIN_MS,
              elections |-> ReplElections, proposals |-> 0,
              max_log |-> MaxLog, standing |-> InTurn, routed |-> FALSE,
              data_dir |-> FALSE, restarts |-> 0, snapshots |-> 0,
              calls |-> LossCalls, faults |-> FALSE,
              isolated |-> NONE, cuts |-> 0, cut_term |-> 0, healed |-> NONE,
              turn |-> 0])

NextLoss ==
    \/ \E n \in DOMAIN node : Start(n)
    \/ \E n \in DOMAIN node : Tick(n)
    \/ \E m \in net : ReceiveMessage(m)
    \/ \E n \in DOMAIN node : ReadIndex(n)
    \/ \E m \in net : ReadAck(m)
    \/ \E n \in DOMAIN node, target_id \in TransferTargets :
          TransferLeadership(n, target_id)
    \/ \E n \in DOMAIN node : ReadCancelAll(n)
    \/ \E n \in DOMAIN node : TransferAbort(n)
    \/ \E n \in DOMAIN node, id \in MemberIds : AddNode(n, id)
    \/ \E n \in DOMAIN node, id \in MemberIds : RemoveNode(n, id)
    \/ \E n \in DOMAIN node, i \in 1..MemberLog : ApplyConfigChange(n, i)
    \/ \E n \in DOMAIN node : SetSnapshotCallback(n)

SpecLoss == InitLoss /\ [][NextLoss]_vars

-----------------------------------------------------------------------------
(* Election *)

VoteMonotonicity ==
    [][ /\ \A n \in DOMAIN node :
              (node'[n].current_term = node[n].current_term /\ node[n].voted_for # NONE)
                  => node'[n].voted_for = node[n].voted_for
        /\ \A m \in net' \ net :
              (m.type = "REQUEST_VOTE_RESPONSE" /\ m.vote_granted)
                  => /\ node'[m.from].voted_for = m.to
                     /\ node'[m.from].current_term = m.term ]_vars

\* a node that voted in this term has just denied another candidate of the term,
\* whose log was no obstacle
SecondCandidateDenied ==
    \E m \in net :
        /\ m.type = "REQUEST_VOTE_RESPONSE"
        /\ ~m.vote_granted
        /\ node[m.from].current_term = m.term
        /\ node[m.to].current_term = m.term
        /\ node[m.to].role = "CANDIDATE"
        /\ node[m.from].voted_for \notin {NONE, m.to, m.from}
        /\ raft_log_last_index(node[m.from].log) = 0

-----------------------------------------------------------------------------
(* Commit *)

\* C2: Consensus safety: at every index within the commit_index of two nodes the
\* two logs hold the same entry (term and payload).
ConsensusSafety ==
    \A a, b \in DOMAIN node :
        \A i \in 1..Min(node[a].commit_index, node[b].commit_index) :
            raft_log_get(node[a].log, i) = raft_log_get(node[b].log, i)

\* C5: Leader completeness: an entry a leader of term T committed at index i is at
\* index i of the log of every LEADER of a term greater than T.
LeaderCompleteness ==
    \A c \in committed :
        \A n \in DOMAIN node :
            (node[n].role = "LEADER" /\ node[n].current_term > c.leader_term)
                => raft_log_get(node[n].log, c.index) = c.entry

\* C7: Current-term commit rule: when a LEADER raises its commit_index, the entry at
\* the new commit_index is of its current_term.
CurrentTermCommit ==
    [][ \A n \in DOMAIN node :
            (node'[n].role = "LEADER" /\ node'[n].commit_index > node[n].commit_index)
                => raft_log_term_at(node'[n].log, node'[n].commit_index)
                       = node'[n].current_term ]_vars

\* a leader committed an entry of an older term together with one of its own term
\* above it
OldTermCommittedWithCurrent ==
    \E n \in DOMAIN node :
        /\ node[n].role = "LEADER"
        /\ node[n].commit_index = 2
        /\ raft_log_term_at(node[n].log, 1) < node[n].current_term
        /\ raft_log_term_at(node[n].log, 2) = node[n].current_term
        /\ \E c \in committed : c.index = 1 /\ c.leader_term = node[n].current_term

-----------------------------------------------------------------------------
(* Logs *)

\* C6: Log matching: two logs that hold the same term at an index hold identical
\* entries at every index up to it.
LogMatching ==
    \A a, b \in DOMAIN node :
        \A i \in 1..Min(raft_log_last_index(node[a].log), raft_log_last_index(node[b].log)) :
            raft_log_term_at(node[a].log, i) = raft_log_term_at(node[b].log, i)
                => \A j \in (node[a].log.base_index + 1)..i :
                       raft_log_get(node[a].log, j) = raft_log_get(node[b].log, j)

\* two logs agree at index 2, on an entry of a later term than the one at index 1
TwoLogsAgreeAtTwo ==
    \E a, b \in DOMAIN node :
        /\ a # b
        /\ raft_log_last_index(node[a].log) = 2
        /\ raft_log_last_index(node[b].log) = 2
        /\ raft_log_term_at(node[a].log, 2) = raft_log_term_at(node[b].log, 2)
        /\ raft_log_term_at(node[a].log, 1) < raft_log_term_at(node[a].log, 2)

-----------------------------------------------------------------------------
(* Apply *)

\* C4: Apply exactly-once: on every node the apply callback has received every index
\* <= last_applied exactly once, in increasing order, none skipped: the indices it
\* received are 1, 2, ..., last_applied.
ApplyExactlyOnce ==
    \A n \in DOMAIN node :
        /\ Len(applied[n]) = node[n].last_applied
        /\ \A i \in 1..Len(applied[n]) : applied[n][i].index = i
-----------------------------------------------------------------------------
(* Progress *)

\* C3: Progress: a command the leader accepted at index 1 is eventually committed
\* and passed to apply on that leader, unless the leader stops being leader.
Progress ==
    \A n \in AllNodes :
        (n \in DOMAIN node /\ node[n].role = "LEADER"
            /\ raft_log_last_index(node[n].log) >= 1)
        ~> (\/ n \notin DOMAIN node
            \/ node[n].role # "LEADER"
            \/ /\ node[n].commit_index >= 1
               /\ \E i \in DOMAIN applied[n] : applied[n][i].index = 1)

-----------------------------------------------------------------------------
(* Persistence *)

\* C9: Crash recovery of term and vote: when a node that voted in its current term
\* is destroyed and created again with the same data directory, the new node has
\* the same current_term and voted_for, and is a FOLLOWER.
TermAndVoteRecovered ==
    [][ env'.restarts < env.restarts =>
          \A n \in DOMAIN node :
              (env.data_dir /\ node[n].voted_for # NONE) =>
                  /\ node'[n].current_term = node[n].current_term
                  /\ node'[n].voted_for = node[n].voted_for
                  /\ (node'[n] # node[n] => node'[n].role = "FOLLOWER") ]_vars

\* C10: Log durability: on a node created with a data directory the log file holds
\* exactly the entries of the in-memory log.
LogDurability ==
    \A n \in DOMAIN node :
        env.data_dir =>
            /\ Len(disk[n].log) = Len(node[n].log.entries)
            /\ \A i \in DOMAIN disk[n].log :
                  disk[n].log[i] =
                     raft_storage_append_entry(NoDisk, node[n].log.entries[i]).log[1]

-----------------------------------------------------------------------------
(* Non-disruption *)

\* C11: Non-disruption on rejoin: a RequestVote that reaches a LEADER whose log is at
\* least as up-to-date as the candidate's, and whom another node follows in its
\* term, leaves that leader LEADER in the same current_term.
StableLeaderKept ==
    [][ \A m \in net :
          ( /\ m.type = "REQUEST_VOTE"
            /\ m.to \in DOMAIN node
            /\ node[m.to].role = "LEADER"
            /\ \/ raft_log_last_term(node[m.to].log) > m.last_log_term
               \/ /\ raft_log_last_term(node[m.to].log) = m.last_log_term
                  /\ raft_log_last_index(node[m.to].log) >= m.last_log_index
            /\ \E q \in DOMAIN node \ {m.to, m.from} :
                  /\ node[q].current_leader = m.to
                  /\ node[q].current_term = node[m.to].current_term
            /\ ReceiveMessage(m) )
          => /\ node'[m.to].role = "LEADER"
             /\ node'[m.to].current_term = node[m.to].current_term ]_vars

-----------------------------------------------------------------------------
(* Indices *)

\* C12: Index ordering: on every node last_applied <= commit_index <= last_index().
IndexOrdering ==
    \A n \in DOMAIN node :
        /\ node[n].last_applied <= node[n].commit_index
        /\ node[n].commit_index <= raft_log_last_index(node[n].log)

\* C13: Monotonic commit: no delivery of an AppendEntries, a heartbeat or an
\* AppendEntries response and no snapshot install lowers a node's commit_index.
MonotonicCommit ==
    [][ ( \/ \E m \in net : ReceiveMessage(m)
          \/ \E m \in net : DeliverAppendEntries(m)
          \/ \E m \in net : DeliverAppendEntriesResponse(m)
          \/ \E n \in DOMAIN node, meta \in SnapshotMetas : InstallSnapshot(n, meta) )
        => \A n \in DOMAIN node : node'[n].commit_index >= node[n].commit_index ]_vars

\* C14: Leader progress: on every LEADER and for every peer p,
\* match_index[p] < next_index[p].
LeaderProgress ==
    \A n \in DOMAIN node :
        node[n].role = "LEADER" =>
            \A p \in Peers(node[n]) : node[n].match_index[p] < node[n].next_index[p]

-----------------------------------------------------------------------------
(* Proposals *)

\* C15: Propose triggers replication: when raft_propose appends an entry on the
\* LEADER of a multi-node cluster and the transport is empty, the transport holds,
\* as the call returns, an AppendEntries from the leader to every other member that
\* carries the new entry.
ProposeReplicates ==
    [][ \A n \in DOMAIN node :
          ( /\ node[n].num_nodes > 1
            /\ net = {}
            /\ Propose(n) )
          => \A p \in Peers(node[n]) :
                \E m \in net' :
                   /\ m.type = "APPEND_ENTRIES"
                   /\ m.from = n
                   /\ m.to = p
                   /\ \E i \in DOMAIN m.entries :
                         m.entries[i] = [term |-> node[n].current_term,
                                         command |-> NextCommand] ]_vars

-----------------------------------------------------------------------------
(* Snapshots *)

\* C18: Snapshot install keeps the suffix: installing a snapshot with
\* base_index < meta.last_index = k < last_index() leaves base_index = k and
\* base_term = meta.last_term, no entry at any index <= k, the original entry at
\* every index k < i <= the former last_index, and commit_index >= k.
SnapshotKeepsSuffix ==
    [][ \A n \in DOMAIN node, meta \in SnapshotMetas :
          LET log == node[n].log
              k == meta.last_index
          IN  ( /\ log.base_index < k
                /\ k < raft_log_last_index(log)
                /\ InstallSnapshot(n, meta) )
              => /\ node'[n].log.base_index = k
                 /\ node'[n].log.base_term = meta.last_term
                 /\ \A i \in 1..k : raft_log_get(node'[n].log, i) = NoEntry
                 /\ \A i \in (k + 1)..raft_log_last_index(log) :
                       raft_log_get(node'[n].log, i) = raft_log_get(log, i)
                 /\ node'[n].commit_index >= k ]_vars

-----------------------------------------------------------------------------
(* Batches *)

-----------------------------------------------------------------------------
(* Client calls *)

\* the step left everything but the run's budgets as it was
NothingChanged ==
    /\ node' = node
    /\ net' = net
    /\ applied' = applied
    /\ committed' = committed
    /\ disk' = disk
    /\ statics' = statics
    /\ read_done' = read_done

\* C17: Leader-only operations: on a started node that is not LEADER, propose,
\* propose_batch, read_index, transfer_leadership, add_node and remove_node return
\* NOT_LEADER and change nothing: the log, commit_index, the pending reads, the
\* transfer state and the pending membership change stay, no message is sent and
\* no read callback is invoked.
NotLeaderRejected ==
    [][ \A n \in DOMAIN node :
          (node[n].running /\ node[n].role # "LEADER") =>
            /\ CallPropose(n) =>
                  raft_propose_status(node[n]) = "NOT_LEADER" /\ NothingChanged
            /\ CallProposeBatch(n) =>
                  /\ \A appended \in 0..2, accepted \in 0..2 :
                        raft_propose_batch(node[n], disk[n],
                                           <<NextCommand, NextCommand - 1>>,
                                           appended, accepted).status = "NOT_LEADER"
                  /\ NothingChanged
            /\ ReadIndex(n) =>
                  raft_read_index(node[n], statics).status = "NOT_LEADER"
                  /\ NothingChanged
            /\ \A target_id \in TransferTargets :
                  TransferLeadership(n, target_id) =>
                     raft_transfer_leadership(node[n], statics, target_id).status
                        = "NOT_LEADER"
                     /\ NothingChanged
            /\ \A id \in MemberIds :
                  /\ AddNode(n, id) =>
                        raft_add_node(node[n], statics, id).status = "NOT_LEADER"
                        /\ NothingChanged
                  /\ RemoveNode(n, id) =>
                        raft_remove_node(node[n], statics, id).status = "NOT_LEADER"
                        /\ NothingChanged ]_vars

\* every call of the run was made in a cluster of three that never had a leader
AllCallsOnFollowers ==
    /\ Cardinality(DOMAIN node) = 3
    /\ env.calls = 0
    /\ \A n \in DOMAIN node :
          node[n].running /\ node[n].role = "FOLLOWER" /\ node[n].current_term = 0

\* C20: ReadIndex safety: a read callback is invoked with OK only when the request
\* has counted acknowledgements of distinct peers that form, with the leader, a
\* strict majority of the cluster, and last_applied has reached the commit_index
\* of the request.
ReadIndexSafety ==
    \A i \in DOMAIN read_done :
        LET r == read_done[i]
        IN  r.status = "OK" =>
              /\ 2 * (Cardinality(r.acked \ {r.node}) + 1) > node[r.node].num_nodes
              /\ r.last_applied >= r.read_index

\* C21: Leadership loss cancels leader-only work: in the step in which a LEADER
\* leaves the leader role, every pending read_index request gets its callback
\* with NOT_LEADER and leaves the pending list, and a leadership transfer in
\* progress is aborted (state NONE, target -1).
LeadershipLossCancels ==
    [][ \A n \in DOMAIN node :
          (node[n].role = "LEADER" /\ node'[n].role # "LEADER") =>
            /\ statics'.pending_reads = << >>
            /\ Len(read_done') = Len(read_done) + Len(statics.pending_reads)
            /\ \A i \in (Len(read_done) + 1)..Len(read_done') :
                  read_done'[i].status = "NOT_LEADER"
            /\ statics'.transfer_state = "NONE"
            /\ statics'.transfer_target = NONE ]_vars

\* C22: Leadership transfer: the target of a transfer that receives the leader's
\* TimeoutNow through raft_receive_message starts an election at once: it is a
\* CANDIDATE of the next term after the delivery.
TimeoutNowStartsElection ==
    [][ \A m \in net :
          (m.type = "TIMEOUT_NOW" /\ ReceiveMessage(m)) =>
            /\ node'[m.to].role = "CANDIDATE"
            /\ node'[m.to].current_term = node[m.to].current_term + 1 ]_vars

\* C23: Invalid membership requests have no effect: on a leader, raft_add_node
\* or raft_remove_node while another change is pending, raft_add_node of a member
\* or of a negative id, and raft_remove_node of a node that is not a member
\* return INVALID_ARG, append no entry and leave the membership and the pending
\* change as they were.
InvalidMembershipRejected ==
    [][ \A n \in DOMAIN node, id \in MemberIds :
          LET config == ensure_config_initialized(node[n], statics.config)
              after == ensure_config_initialized(node'[n], statics'.config)
              pending == config.pending_node # NONE \/ config.pending_add
              kept == node'[n].log = node[n].log /\ after = config
          IN  node[n].role = "LEADER" =>
                /\ (AddNode(n, id) /\ (pending \/ IsMember(config, id) \/ id < 0)) =>
                      /\ raft_add_node(node[n], statics, id).status = "INVALID_ARG"
                      /\ kept
                /\ (RemoveNode(n, id) /\ (pending \/ ~IsMember(config, id))) =>
                      /\ raft_remove_node(node[n], statics, id).status = "INVALID_ARG"
                      /\ kept ]_vars

\* C24: Membership change completes on commit: once the leader has applied the
\* CONFIG entry of a change, that change is no longer pending: the membership
\* holds it and the configuration is STABLE.
ConfigAppliedOnCommit ==
    \A n \in DOMAIN node : \A i \in 1..node[n].last_applied :
        LET e == raft_log_get(node[n].log, i)
            id == e.command \div 256
        IN  (node[n].role = "LEADER" /\ e # NoEntry /\ e.type = "CONFIG" /\ id >= 0) =>
              /\ statics.config.pending_node # id
              /\ (e.command % 256 = CONFIG_CMD_ADD) => raft_is_voting_member(node[n], statics, id)
              /\ (e.command % 256 = CONFIG_CMD_REMOVE) => ~raft_is_voting_member(node[n], statics, id)

\* C25: Pending addition counts in quorum: while an addition is pending, the
\* leader has its CONFIG entry committed only if the nodes it knows to hold the
\* entry are strictly more than half of raft_get_cluster_size, the members and
\* the pending node.
QuorumCountsPending ==
    \A n \in DOMAIN node : \A i \in 1..node[n].commit_index :
        LET e == raft_log_get(node[n].log, i)
        IN  ( /\ node[n].role = "LEADER"
              /\ e # NoEntry /\ e.type = "CONFIG"
              /\ statics.config.pending_add /\ statics.config.pending_node >= 0
              /\ e.command = ConfigCommand(CONFIG_CMD_ADD, statics.config.pending_node) ) =>
                2 * majority_count(node[n], i) > raft_get_cluster_size(node[n], statics)

-----------------------------------------------------------------------------
(* Partitions *)

Leaders == {n \in DOMAIN node : node[n].role = "LEADER"}

-----------------------------------------------------------------------------
(* File-scope state *)

\* what node nd has of the state the calls of read.h, transfer.h, membership.h
\* and snapshot.h keep: the answers of its observers and its snapshot callback
StateOf(nd, st) ==
    [pending_reads |-> raft_read_pending_count(nd, st),
     transfer_in_progress |-> st.transfer_state # "NONE",
     transfer_target |-> st.transfer_target,
     config_type |-> raft_get_config_type(nd, st),
     cluster_size |-> raft_get_cluster_size(nd, st),
     members |-> {id \in MemberIds : raft_is_voting_member(nd, st, id)},
     snapshot_cb |-> st.snapshot_cb]

\* a call on node a that uses the file-scope variables
CallOn(a) ==
    \/ ReadIndex(a)
    \/ \E m \in net : m.to = a /\ ReadAck(m)
    \/ ReadCancelAll(a)
    \/ \E target_id \in TransferTargets : TransferLeadership(a, target_id)
    \/ TransferAbort(a)
    \/ \E id \in MemberIds : AddNode(a, id) \/ RemoveNode(a, id)
    \/ \E i \in 1..MemberLog : ApplyConfigChange(a, i)
    \/ SetSnapshotCallback(a)

\* C28: Per-node state isolation: a call of read_index, raft_read_process_ack,
\* raft_read_cancel_all, transfer_leadership, raft_transfer_abort, add_node,
\* remove_node, raft_apply_config_change or raft_set_snapshot_callback on node a
\* leaves the pending reads, the transfer state and target, the membership
\* configuration and pending change and the snapshot callback of every other
\* node b of the process as they were.
PerNodeIsolation ==
    [][ \A a \in DOMAIN node, b \in DOMAIN node :
          (a # b /\ CallOn(a)) =>
              StateOf(node'[b], statics') = StateOf(node[b], statics) ]_vars

-----------------------------------------------------------------------------
(* Terms *)

\* C29: Step-down on higher term: a node in any role that handles a RequestVote,
\* a RequestVoteResponse, an AppendEntries or an AppendEntriesResponse whose term
\* is greater than its current_term is a FOLLOWER of the message's term after
\* it, and has voted in that term for nobody, or for the candidate whose
\* RequestVote it was.
StepDownOnHigherTerm ==
    [][ \A m \in net :
          ( /\ m.type \in {"REQUEST_VOTE", "REQUEST_VOTE_RESPONSE",
                           "APPEND_ENTRIES", "APPEND_ENTRIES_RESPONSE"}
            /\ m.to \in DOMAIN node
            /\ m.term > node[m.to].current_term
            /\ \/ ReceiveMessage(m)
               \/ DeliverAppendEntries(m)
               \/ DeliverAppendEntriesResponse(m) )
          => /\ node'[m.to].role = "FOLLOWER"
             /\ node'[m.to].current_term = m.term
             /\ node'[m.to].voted_for \in
                   {NONE} \cup (IF m.type = "REQUEST_VOTE" THEN {m.from} ELSE {}) ]_vars

\* C30: RequestVote decision: a RequestVote of a term not below the receiver's is
\* granted if and only if the receiver, after any step-down, has voted for nobody
\* or for the candidate and the candidate's (last_log_term, last_log_index) is at
\* least the receiver's; a RequestVote of a lower term is answered
\* {current_term, false} and changes nothing in the receiver.
RequestVoteDecision ==
    [][ \A m \in net :
          (m.type = "REQUEST_VOTE" /\ m.to \in DOMAIN node /\ ReceiveMessage(m)) =>
            LET nd == node[m.to]
                stale == m.term < nd.current_term
                voted == IF m.term > nd.current_term THEN NONE ELSE nd.voted_for
                our_term == raft_log_last_term(nd.log)
                our_index == raft_log_last_index(nd.log)
                log_ok == \/ m.last_log_term > our_term
                          \/ m.last_log_term = our_term /\ m.last_log_index >= our_index
                grant == ~stale /\ voted \in {NONE, m.candidate_id} /\ log_ok
            IN  /\ stale => node'[m.to] = nd
                /\ node'[m.to].voted_for = (IF grant THEN m.candidate_id ELSE voted)
                /\ \A r \in net' \ net :
                      (r.type = "REQUEST_VOTE_RESPONSE" /\ r.from = m.to /\ r.to = m.from)
                        => /\ r.vote_granted = grant
                           /\ r.term = node'[m.to].current_term ]_vars

\* a node that has voted for nobody in this term has just denied a candidate of
\* the term whose log is shorter than its own
ShorterLogDenied ==
    \E r \in net :
        /\ r.type = "REQUEST_VOTE_RESPONSE"
        /\ ~r.vote_granted
        /\ node[r.from].current_term = r.term
        /\ node[r.to].current_term = r.term
        /\ node[r.to].role = "CANDIDATE"
        /\ node[r.from].voted_for = NONE
        /\ raft_log_last_index(node[r.from].log) > raft_log_last_index(node[r.to].log)

-----------------------------------------------------------------------------
(* Consistency check *)

\* C31: Consistency check guards every AppendEntries: a node that receives through
\* raft_receive_message an AppendEntries (with entries or without) of a term not
\* below its own, with prev_log_index > 0 and a prev_log_term that is not its own
\* term_at(prev_log_index), replies {current_term, false, last_index()} and changes
\* neither its log nor its commit_index.
ConsistencyCheckGuards ==
    [][ \A m \in net :
          ( /\ m.type = "APPEND_ENTRIES"
            /\ m.to \in DOMAIN node
            /\ m.term >= node[m.to].current_term
            /\ m.prev_log_index > 0
            /\ m.prev_log_term # raft_log_term_at(node[m.to].log, m.prev_log_index)
            /\ ReceiveMessage(m) )
          => /\ node'[m.to].log = node[m.to].log
             /\ node'[m.to].commit_index = node[m.to].commit_index
             /\ \A r \in net' \ net :
                   (r.type = "APPEND_ENTRIES_RESPONSE" /\ r.from = m.to /\ r.to = m.from)
                     => /\ r.term = node'[m.to].current_term
                        /\ ~r.success
                        /\ r.match_index = raft_log_last_index(node[m.to].log) ]_vars

\* C32: match_index is sound: for every LEADER L and peer p, match_index[p] is at
\* most L's last index, and p's log holds at every index up to match_index[p] an
\* entry of the same term as L's entry at that index.
MatchIndexSound ==
    \A l \in DOMAIN node : \A p \in DOMAIN node \ {l} :
        node[l].role = "LEADER" =>
            /\ node[l].match_index[p] <= raft_log_last_index(node[l].log)
            /\ \A i \in 1..node[l].match_index[p] :
                  /\ raft_log_get(node[p].log, i) # NoEntry
                  /\ raft_log_term_at(node[p].log, i) = raft_log_term_at(node[l].log, i)

-----------------------------------------------------------------------------
(* Anchor of the log *)

\* C33: base_index is monotonic: on every node the base_index of the log never
\* decreases across any operation, raft_log_truncate_before, raft_maybe_compact
\* and the install of a snapshot whose last_index is below the current base_index
\* included.
BaseIndexMonotonic ==
    [][ \A n \in DOMAIN node :
          node'[n].log.base_index >= node[n].log.base_index ]_vars

-----------------------------------------------------------------------------
(* Recovery *)

\* the log of node n is anchored at the snapshot of its directory, and every entry
\* it holds is a record of raft_log.dat
SnapshotWritten(n) ==
    /\ disk[n].snapshot.found
    /\ node[n].log.base_index = disk[n].snapshot.last_index
    /\ node[n].log.base_term = disk[n].snapshot.last_term
    /\ \A i \in DOMAIN node[n].log.entries :
          \E j \in DOMAIN disk[n].log :
              disk[n].log[j] =
                 raft_storage_append_entry(NoDisk, node[n].log.entries[i]).log[1]

\* C34: Recovery with a snapshot: after raft_maybe_compact or raft_snapshot_install
\* has written a snapshot on a node with a data directory (whose files nothing
\* damaged), a crash followed by raft_recover returns OK and yields a log whose
\* base_index and base_term are the snapshot's last_index and last_term and whose
\* entries are exactly the entries that were above the anchor before the crash.
RecoveryWithSnapshot ==
    [][ \A n \in DOMAIN node :
          (SnapshotWritten(n) /\ env.faults /\ Recover(n)) =>
              /\ raft_recover(raft_create(n, node[n].num_nodes), disk[n]).status = "OK"
              /\ node'[n].log = node[n].log ]_vars

\* a file of directory d has one of the faults a recovery must not pass over
Corrupt(d) ==
    \/ /\ d.state.found
       /\ \/ d.state.magic # RAFT_STATE_MAGIC
          \/ d.state.version # RAFT_STORAGE_VERSION
          \/ d.state.crc32 # crc32(<<d.state.current_term, d.state.voted_for>>)
    \/ /\ d.snapshot.found
       /\ \/ d.snapshot.magic # RAFT_SNAPSHOT_MAGIC
          \/ d.snapshot.version # RAFT_SNAPSHOT_VERSION
          \/ d.snapshot.crc32 # crc32(<<d.snapshot.last_index, d.snapshot.last_term>>)
    \/ \E i \in DOMAIN d.log : d.log[i].crc32 # crc32(RecordData(d.log[i]))
    \/ d.tail # "NONE"

\* C35: Corruption aborts recovery: raft_recover returns a status that is not OK
\* whenever the state file has a wrong magic, version or CRC, the snapshot file has
\* a wrong magic, version or CRC, a log record has a wrong CRC, or the log file
\* ends in a record cut inside its header or inside its payload.
CorruptionAborts ==
    [][ \A n \in DOMAIN node :
          (Corrupt(disk[n]) /\ Recover(n)) =>
              raft_recover(raft_create(n, node[n].num_nodes), disk[n]).status # "OK" ]_vars

-----------------------------------------------------------------------------
(* Election timer *)

\* C36: Election timeout range: a started node that is not LEADER starts an
\* election from raft_tick only when the time ticked since it was started or since
\* its last timer reset is at least its election timeout, and the timeout that is
\* compared is a value of 150..300 ms, on the first tick after create and start
\* as on every other.
ElectionTimeoutRange ==
    [][ \A n \in DOMAIN node :
          (node[n].running /\ node[n].role # "LEADER" /\ Tick(n)) =>
              /\ node[n].election_timeout_ms \in
                    RAFT_ELECTION_TIMEOUT_MIN_MS..RAFT_ELECTION_TIMEOUT_MAX_MS
              /\ node'[n].current_term > node[n].current_term =>
                    node[n].election_timer_ms + env.tick_ms
                       >= RAFT_ELECTION_TIMEOUT_MIN_MS ]_vars

-----------------------------------------------------------------------------
(* Committed entries *)

\* C37: Committed entries are never removed by replication: a node that handles an
\* AppendEntries deletes or replaces no entry at an index up to its commit_index
\* (the conflict truncation truncate_after(entry_index - 1) is only executed with
\* entry_index > commit_index).
CommittedEntriesKept ==
    [][ \A m \in net :
          ( /\ m.type = "APPEND_ENTRIES"
            /\ m.to \in DOMAIN node
            /\ ReceiveMessage(m) \/ DeliverAppendEntries(m) )
          => \A i \in 1..node[m.to].commit_index :
                raft_log_get(node'[m.to].log, i) = raft_log_get(node[m.to].log, i) ]_vars

-----------------------------------------------------------------------------
(* Denied votes *)

\* the reply raft_handle_request_vote gives node m.to for the RequestVote m (the
\* timeout drawn has no part in it)
VoteReply(m) ==
    raft_handle_request_vote(node[m.to], m, RAFT_ELECTION_TIMEOUT_MIN_MS).out[1]

\* C38: A denied vote does not touch the election timer: a node that handles a
\* RequestVote and replies vote_granted = FALSE (stale term, voted for another
\* candidate, or candidate log not up to date, the request of a higher term
\* included) keeps its elapsed election time and its election timeout.
DeniedVoteKeepsTimer ==
    [][ \A m \in net :
          ( /\ m.type = "REQUEST_VOTE"
            /\ m.to \in DOMAIN node
            /\ ReceiveMessage(m)
            /\ ~VoteReply(m).vote_granted )
          => /\ node'[m.to].election_timer_ms = node[m.to].election_timer_ms
             /\ node'[m.to].election_timeout_ms = node[m.to].election_timeout_ms ]_vars

-----------------------------------------------------------------------------
(* Kind of an entry *)

\* the indices at which the step put an entry into the log of node n
Created(n) ==
    {i \in 1..raft_log_last_index(node'[n].log) :
        raft_log_get(node'[n].log, i) # raft_log_get(node[n].log, i)}

\* C39: Entry kind is determined by the appending operation: an entry that
\* raft_propose, raft_propose_batch or the handling of an AppendEntries puts into the
\* log has type COMMAND and one that raft_add_node or raft_remove_node puts there has
\* type CONFIG, at an index that held a CONFIG entry before as at any other.
EntryKindByOperation ==
    [][ \A n \in DOMAIN node :
          /\ ( \/ Propose(n)
               \/ ProposeBatch(n)
               \/ \E m \in net : m.to = n /\ DeliverAppendEntries(m) )
             => \A i \in Created(n) : raft_log_get(node'[n].log, i).type = "COMMAND"
          /\ (\E id \in MemberIds : AddNode(n, id) \/ RemoveNode(n, id))
             => \A i \in Created(n) : raft_log_get(node'[n].log, i).type = "CONFIG" ]_vars

-----------------------------------------------------------------------------
(* Peer set *)

\* the ids of g_config.nodes
MemberSet(config) == {config.nodes[i] : i \in 1..config.node_count}

\* C40: Peer set follows membership: once raft_apply_config_change has applied an
\* addition or a removal, the ids 0 .. num_nodes - 1 the node sends to, counts votes
\* and matches from and indexes its arrays with are the configured members, no more
\* and no less, and num_nodes is within the length of next_index, match_index and
\* votes_granted.
PeerSetFollowsMembership ==
    [][ \A n \in DOMAIN node : \A i \in 1..raft_log_last_index(node[n].log) :
          ( /\ ApplyConfigChange(n, i)
            /\ raft_log_get(node[n].log, i).type = "CONFIG"
            /\ raft_log_get(node[n].log, i).command % 256
                  \in {CONFIG_CMD_ADD, CONFIG_CMD_REMOVE} )
          => /\ 0..(node'[n].num_nodes - 1) = MemberSet(statics'.config)
             /\ node'[n].num_nodes <= Cardinality(DOMAIN node'[n].next_index)
             /\ node'[n].num_nodes <= Cardinality(DOMAIN node'[n].match_index)
             /\ node'[n].num_nodes <= Cardinality(DOMAIN node'[n].votes_granted) ]_vars

====
